---------------------------- MODULE Spec2Model ----------------------------
(***************************************************************************)
(* A model of scripts/build.mjs, the static site generator of the          *)
(* repository: the escaper, the line-oriented markdown renderer, the       *)
(* placeholder substitution, the post loader and the build run; and of     *)
(* docs/assets/js/tag-filter.js, the tag filter of a blog-list page.       *)
(*                                                                         *)
(* Representation of text.  A JavaScript string is a sequence of units.    *)
(* A unit is a TLA+ string: either ONE character of text, or one literal   *)
(* piece of the program's own markup (such as "<ol>\n"), which is longer   *)
(* than one character and so never equal to a character unit.  The names   *)
(* of placeholders are units as well.  All string functions of the program *)
(* (replace, replaceAll, slice, startsWith, join, <) work on units.        *)
(***************************************************************************)
EXTENDS Integers, Sequences, FiniteSets, TLC

VARIABLES
    \* ---- esc (one call)
    str,          \* the argument of esc, a JavaScript value
    escaped,      \* what esc returned, or NotCalled
    \* ---- renderMarkdown (one call, line by line)
    lines,        \* content.split('\n')
    lineNo,       \* number of lines the for loop has processed
    html,         \* the accumulated output
    inOl,         \* an <ol> is open
    inUl,         \* a <ul> is open
    mdpc,         \* "idle" | "loop" | "returned"
    \* ---- render (one call, key by key)
    templateStr,  \* the template argument
    vars,         \* Object.entries(vars): a sequence of <<key, value>>
    keyNo,        \* number of entries the for loop has processed
    result,       \* the local variable result
    rpc,          \* "idle" | "loop" | "returned"
    \* ---- loadPosts (one call)
    postsDir,     \* fs.readdirSync(postsDir) with each file's parsed frontmatter
    loaded,       \* what the call did: returned posts, or exited
    \* ---- build (one run of the program)
    pc,           \* position of the run in build()
    env,          \* what the run finds: parser, public/, config, content, templates, clock
    dist,         \* the output directory: [exists, files]
    blogNo,       \* index of the blog being processed
    postNo,       \* index of the post page to write next
    posts,        \* loadPosts' result for the current blog
    allPostsForTop, \* the posts collected for the home page
    exitCode,     \* <<>> while the process runs, then <<code>>
    stderr,       \* what console.error printed last
    \* ---- tag-filter.js on a generated blog-list page
    page,         \* the theme, the posts and the two fragments built from them
    tagBtns,      \* the elements matching [data-tag-btn], in document order
    cards,        \* the elements matching [data-post-tags], in document order
    lastClicked,  \* index of the button clicked last, 0 before the first click
    clicks,       \* number of clicks so far
    fpc           \* "idle" | "loading" | "ready"

escVars    == <<str, escaped>>
mdVars     == <<lines, lineNo, html, inOl, inUl, mdpc>>
renderVars == <<templateStr, vars, keyNo, result, rpc>>
loadVars   == <<postsDir, loaded>>
buildVars  == <<pc, env, dist, blogNo, postNo, posts, allPostsForTop, exitCode, stderr>>
filterVars == <<page, tagBtns, cards, lastClicked, clicks, fpc>>
allVars    == <<escVars, mdVars, renderVars, loadVars, buildVars, filterVars>>

-----------------------------------------------------------------------------
(* Bounds of the model *)

MaxStrLen == 4    \* length of the strings given to esc
MaxLines  == 3     \* number of lines of a markdown body
MaxParts  == 2     \* number of pieces a template given to render is made of
MaxFiles  == 3     \* number of entries of a posts directory
MaxBlogs  == 2     \* number of blogs of blogs.json
MaxPosts  == 2     \* number of posts of the blog of a filtered page
MaxClicks == 2     \* number of clicks on filter buttons

-----------------------------------------------------------------------------
(* Generic helpers on sequences of units *)

Range(s) == {s[i] : i \in 1..Len(s)}

SeqsUpTo(S, n) == UNION {[1..k -> S] : k \in 0..n}

RECURSIVE Concat(_)
Concat(ss) == IF ss = <<>> THEN <<>> ELSE Head(ss) \o Concat(Tail(ss))

\* does pat occur in s at position i (1-based)
MatchAt(s, pat, i) ==
    /\ i >= 1
    /\ i + Len(pat) - 1 <= Len(s)
    /\ \A j \in 1..Len(pat) : s[i + j - 1] = pat[j]

Occurrences(s, pat) == Cardinality({i \in 1..Len(s) : MatchAt(s, pat, i)})

Contains(s, pat) == \E i \in 1..Len(s) : MatchAt(s, pat, i)

\* String.prototype.startsWith
startsWith(s, pat) == MatchAt(s, pat, 1)

\* String.prototype.slice(from) and slice(0, to), 0-based as in JavaScript
sliceFrom(s, from) == SubSeq(s, from + 1, Len(s))
sliceTo(s, to) == SubSeq(s, 1, IF to < Len(s) THEN to ELSE Len(s))

-----------------------------------------------------------------------------
(* JavaScript values, as far as esc and render distinguish them *)

Undefined == [t |-> "undefined", b |-> FALSE, n |-> 0, s |-> <<>>]
Null      == [t |-> "null",      b |-> FALSE, n |-> 0, s |-> <<>>]
NaN       == [t |-> "nan",       b |-> FALSE, n |-> 0, s |-> <<>>]
Bool(x)   == [t |-> "boolean",   b |-> x,     n |-> 0, s |-> <<>>]
Num(x)    == [t |-> "number",    b |-> FALSE, n |-> x, s |-> <<>>]
Str(x)    == [t |-> "string",    b |-> FALSE, n |-> 0, s |-> x]

\* ToBoolean: what !v negates
Truthy(v) ==
    CASE v.t = "undefined" -> FALSE
      [] v.t = "null"      -> FALSE
      [] v.t = "nan"       -> FALSE
      [] v.t = "boolean"   -> v.b
      [] v.t = "number"    -> v.n # 0
      [] v.t = "string"    -> v.s # <<>>

Digit(d) == <<"0", "1", "2", "3", "4", "5", "6", "7", "8", "9">>[d + 1]

RECURSIVE Decimal(_)
Decimal(n) == IF n < 10 THEN <<Digit(n)>> ELSE Decimal(n \div 10) \o <<Digit(n % 10)>>

\* String(v), also the conversion replaceAll applies to its replacement
String(v) ==
    CASE v.t = "undefined" -> <<"u", "n", "d", "e", "f", "i", "n", "e", "d">>
      [] v.t = "null"      -> <<"n", "u", "l", "l">>
      [] v.t = "nan"       -> <<"N", "a", "N">>
      [] v.t = "boolean"   -> IF v.b THEN <<"t", "r", "u", "e">>
                                     ELSE <<"f", "a", "l", "s", "e">>
      [] v.t = "number"    -> Decimal(v.n)
      [] v.t = "string"    -> v.s

-----------------------------------------------------------------------------
(* String.prototype.replace(/c/g, rep) and replaceAll(pat, rep) *)

\* GetSubstitution: the replacement text for the match of pat at pos in s;
\* "$$", "$&", "$`" and "$'" are the patterns a string pattern can expand
\* a replacement pattern starts at index k of rep
\* the unit of the grave accent (U+0060)
GRAVE == "(grave)"

IsDollarPattern(rep, k) ==
    /\ rep[k] = "$" /\ k < Len(rep)
    /\ rep[k + 1] \in {"$", "&", GRAVE, "'"}

\* the least index of a set of indices, or 0 when there is none
FirstOf(S) == IF S = {} THEN 0 ELSE CHOOSE j \in S : \A h \in S : j <= h

RECURSIVE GetSubstitution(_, _, _, _, _)
GetSubstitution(rep, k, s, pat, pos) ==
    LET d == FirstOf({j \in k..Len(rep) : IsDollarPattern(rep, j)})
    IN  IF d = 0 THEN SubSeq(rep, k, Len(rep))
        ELSE SubSeq(rep, k, d - 1)
               \o (CASE rep[d + 1] = "$" -> <<"$">>
                     [] rep[d + 1] = "&" -> pat
                     [] rep[d + 1] = GRAVE -> SubSeq(s, 1, pos - 1)
                     [] OTHER            -> SubSeq(s, pos + Len(pat), Len(s)))
               \o GetSubstitution(rep, d + 2, s, pat, pos)

\* left to right, each match replaced, the scan resuming after the match
RECURSIVE ReplaceFrom(_, _, _, _)
ReplaceFrom(s, pat, rep, i) ==
    LET m == FirstOf({j \in i..Len(s) : MatchAt(s, pat, j)})
    IN  IF m = 0 THEN SubSeq(s, i, Len(s))
        ELSE SubSeq(s, i, m - 1) \o GetSubstitution(rep, 1, s, pat, m)
               \o ReplaceFrom(s, pat, rep, m + Len(pat))

replaceAll(s, pat, rep) == ReplaceFrom(s, pat, rep, 1)

-----------------------------------------------------------------------------
(* esc: build.mjs 99-106 *)

AMP  == <<"&", "a", "m", "p", ";">>
LT   == <<"&", "l", "t", ";">>
GT   == <<"&", "g", "t", ";">>
QUOT == <<"&", "q", "u", "o", "t", ";">>

escAbsentNoZeroTest(v) == ~Truthy(v)

escReplaceAmpLast(s) ==
    replaceAll(replaceAll(replaceAll(replaceAll(s,
        <<"<">>, LT), <<">">>, GT), <<"\"">>, QUOT), <<"&">>, AMP)

\* the guard of line 100: !str && str !== 0
escAbsent(v) == ~Truthy(v) /\ ~(v.t = "number" /\ v.n = 0)

\* the replace chain of lines 101-105
escReplace(s) ==
    replaceAll(replaceAll(replaceAll(replaceAll(s,
        <<"&">>, AMP), <<"<">>, LT), <<">">>, GT), <<"\"">>, QUOT)

esc(v) == IF escAbsent(v) THEN <<>> ELSE escReplace(String(v))

\* the inverse reading of the four entities, one pass from the left
RECURSIVE unescape(_)
unescape(s) ==
    IF s = <<>> THEN <<>>
    ELSE IF startsWith(s, AMP)  THEN <<"&">>  \o unescape(sliceFrom(s, Len(AMP)))
    ELSE IF startsWith(s, LT)   THEN <<"<">>  \o unescape(sliceFrom(s, Len(LT)))
    ELSE IF startsWith(s, GT)   THEN <<">">>  \o unescape(sliceFrom(s, Len(GT)))
    ELSE IF startsWith(s, QUOT) THEN <<"\"">> \o unescape(sliceFrom(s, Len(QUOT)))
    ELSE <<Head(s)>> \o unescape(Tail(s))

\* no literal <, > or ", and every & starts one of the four entities
WellEscaped(s) ==
    /\ \A i \in 1..Len(s) : s[i] \notin {"<", ">", "\""}
    /\ \A i \in 1..Len(s) : s[i] = "&" =>
          \/ MatchAt(s, AMP, i) \/ MatchAt(s, LT, i)
          \/ MatchAt(s, GT, i)  \/ MatchAt(s, QUOT, i)

NotCalled == [called |-> FALSE, out |-> <<>>]
Returned(x) == [called |-> TRUE, out |-> x]

EscAlphabet == {"&", "<", ">", "\"", "l", "t", ";"}

EscInputs ==
    {Undefined, Null, NaN, Bool(TRUE), Bool(FALSE), Num(0), Num(7), Num(10)}
        \cup {Str(x) : x \in SeqsUpTo(EscAlphabet, MaxStrLen)}

EscIdle == str = Undefined /\ escaped = NotCalled

InitEscCall == str \in EscInputs /\ escaped = NotCalled

CallEsc ==
    /\ escaped = NotCalled
    /\ escaped' = Returned(esc(str))
    /\ UNCHANGED <<str, mdVars, renderVars, loadVars, buildVars, filterVars>>

-----------------------------------------------------------------------------
(* renderMarkdown: build.mjs 54-96 *)

TAG_OL_OPEN  == "<ol>\n"
TAG_OL_CLOSE == "</ol>\n"
TAG_UL_OPEN  == "<ul>\n"
TAG_UL_CLOSE == "</ul>\n"

IsDigit(u) == u \in {"0", "1", "2", "3", "4", "5", "6", "7", "8", "9"}
IsSpace(u) == u \in {" ", "\t"}

\* number of leading digits of line from position i on
RECURSIVE DigitRun(_, _)
DigitRun(line, i) ==
    IF i <= Len(line) /\ IsDigit(line[i]) THEN 1 + DigitRun(line, i + 1) ELSE 0

\* length of the match of /^\d+\.\s/ at the start of line, 0 when none
NumberedPrefix(line) ==
    LET d == DigitRun(line, 1)
    IN  IF d >= 1 /\ d + 2 <= Len(line) /\ line[d + 1] = "." /\ IsSpace(line[d + 2])
        THEN d + 2 ELSE 0

\* line.trim() === ''
IsBlank(line) == \A i \in 1..Len(line) : IsSpace(line[i])

\* the closure close() of lines 61-64, on the record of html, inOl, inUl
mdCloseOlOnly(st) ==
    IF st.inOl THEN [st EXCEPT !.html = @ \o <<TAG_OL_CLOSE>>, !.inOl = FALSE] ELSE st

\* a variant of close() that closes an unordered list only
mdCloseUlOnly(st) ==
    IF st.inUl THEN [st EXCEPT !.html = @ \o <<TAG_UL_CLOSE>>, !.inUl = FALSE] ELSE st

mdClose(st) ==
    LET a == IF st.inOl THEN [st EXCEPT !.html = @ \o <<TAG_OL_CLOSE>>, !.inOl = FALSE]
                        ELSE st
    IN  IF a.inUl THEN [a EXCEPT !.html = @ \o <<TAG_UL_CLOSE>>, !.inUl = FALSE] ELSE a

Emit(st, units) == [st EXCEPT !.html = @ \o units]

H3 == <<"#", "#", "#", " ">>
H2 == <<"#", "#", " ">>
H1 == <<"#", " ">>
DASH == <<"-", " ">>

\* the kind of a line, in the priority order of the if chain of lines 69-92
LineKind(line) ==
    IF startsWith(line, H3) THEN "h3"
    ELSE IF startsWith(line, H2) THEN "h2"
    ELSE IF startsWith(line, H1) THEN "h1"
    ELSE IF NumberedPrefix(line) > 0 THEN "numbered"
    ELSE IF startsWith(line, DASH) THEN "dash"
    ELSE IF IsBlank(line) THEN "blank"
    ELSE "other"

\* the body of the for loop, lines 66-93
mdLine(st, line) ==
    LET k == LineKind(line) IN
    CASE k = "h3" ->
           Emit(mdClose(st), <<"<h3>">> \o esc(Str(sliceFrom(line, 4))) \o <<"</h3>\n">>)
      [] k = "h2" ->
           Emit(mdClose(st), <<"<h2>">> \o esc(Str(sliceFrom(line, 3))) \o <<"</h2>\n">>)
      [] k = "h1" ->
           Emit(mdClose(st), <<"<h1>">> \o esc(Str(sliceFrom(line, 2))) \o <<"</h1>\n">>)
      [] k = "numbered" ->
           LET a == IF st.inUl
                    THEN [st EXCEPT !.html = @ \o <<TAG_UL_CLOSE>>, !.inUl = FALSE] ELSE st
               b == IF ~a.inOl
                    THEN [a EXCEPT !.html = @ \o <<TAG_OL_OPEN>>, !.inOl = TRUE] ELSE a
           IN  Emit(b, <<"  <li>">> \o esc(Str(sliceFrom(line, NumberedPrefix(line))))
                          \o <<"</li>\n">>)
      [] k = "dash" ->
           LET a == IF st.inOl
                    THEN [st EXCEPT !.html = @ \o <<TAG_OL_CLOSE>>, !.inOl = FALSE] ELSE st
               b == IF ~a.inUl
                    THEN [a EXCEPT !.html = @ \o <<TAG_UL_OPEN>>, !.inUl = TRUE] ELSE a
           IN  Emit(b, <<"  <li>">> \o esc(Str(sliceFrom(line, 2))) \o <<"</li>\n">>)
      [] k = "blank" -> Emit(mdClose(st), <<"\n">>)
      [] OTHER -> Emit(mdClose(st), <<"<p>">> \o esc(Str(line)) \o <<"</p>\n">>)

mdStart == [html |-> <<>>, inOl |-> FALSE, inUl |-> FALSE]

\* !content of line 55: content is the one empty line (null and undefined
\* bodies behave the same)
EmptyContent(ls) == ls = << <<>> >>

RECURSIVE mdFold(_, _)
mdFold(st, ls) == IF ls = <<>> THEN st ELSE mdFold(mdLine(st, Head(ls)), Tail(ls))

\* the function as a whole, on content.split('\n')
renderMarkdown(ls) ==
    IF EmptyContent(ls) THEN <<>> ELSE mdClose(mdFold(mdStart, ls)).html

LineSamples ==
    { <<"#", "#", "#", " ", "<">>,
      <<"#", "#", " ", "a">>,
      <<"#", " ", "&">>,
      <<"1", ".", " ", "a">>,
      <<"2", "3", ".", "\t", "<", "o", "l", ">">>,
      <<"-", " ", "<", "u", "l", ">">>,
      <<"-", " ", "b">>,
      <<>>,
      <<" ">>,
      <<"<", "/", "o", "l", ">">>,
      <<"#", "a">>,
      <<"1", ".", "a">> }

MdInputs == UNION {[1..k -> LineSamples] : k \in 1..MaxLines}

MdIdle ==
    /\ lines = << <<>> >> /\ lineNo = 0 /\ html = <<>>
    /\ inOl = FALSE /\ inUl = FALSE /\ mdpc = "idle"

InitMdCall ==
    /\ lines \in MdInputs /\ lineNo = 0 /\ html = <<>>
    /\ inOl = FALSE /\ inUl = FALSE /\ mdpc = "entry"

\* line 55: return '' for an empty body
MdReturnEmpty ==
    /\ mdpc = "entry" /\ EmptyContent(lines)
    /\ mdpc' = "returned"
    /\ UNCHANGED <<lines, lineNo, html, inOl, inUl>>
    /\ UNCHANGED <<escVars, renderVars, loadVars, buildVars, filterVars>>

\* lines 56-59
MdEnterLoop ==
    /\ mdpc = "entry" /\ ~EmptyContent(lines)
    /\ mdpc' = "loop"
    /\ UNCHANGED <<lines, lineNo, html, inOl, inUl>>
    /\ UNCHANGED <<escVars, renderVars, loadVars, buildVars, filterVars>>

\* one iteration of the for loop
MdLine ==
    /\ mdpc = "loop" /\ lineNo < Len(lines)
    /\ LET st == mdLine([html |-> html, inOl |-> inOl, inUl |-> inUl], lines[lineNo + 1])
       IN  html' = st.html /\ inOl' = st.inOl /\ inUl' = st.inUl
    /\ lineNo' = lineNo + 1
    /\ UNCHANGED <<lines, mdpc>>
    /\ UNCHANGED <<escVars, renderVars, loadVars, buildVars, filterVars>>

\* lines 94-95: the final close() and the return
MdReturn ==
    /\ mdpc = "loop" /\ lineNo = Len(lines)
    /\ LET st == mdClose([html |-> html, inOl |-> inOl, inUl |-> inUl])
       IN  html' = st.html /\ inOl' = st.inOl /\ inUl' = st.inUl
    /\ mdpc' = "returned"
    /\ UNCHANGED <<lines, lineNo>>
    /\ UNCHANGED <<escVars, renderVars, loadVars, buildVars, filterVars>>

-----------------------------------------------------------------------------
(* render: build.mjs 113-120 *)

\* `{{${key}}}`
Placeholder(key) == <<"{", "{">> \o key \o <<"}", "}">>

\* val ?? '', converted to a string by replaceAll
Replacement(val) == IF val.t \in {"null", "undefined"} THEN <<>> ELSE String(val)

\* one iteration of the for loop, line 117; entry is <<key, val>>
renderEntry(res, entry) == replaceAll(res, Placeholder(entry[1]), Replacement(entry[2]))

RECURSIVE renderFold(_, _)
renderFold(res, entries) ==
    IF entries = <<>> THEN res
    ELSE renderFold(renderEntry(res, Head(entries)), Tail(entries))

\* the function as a whole, on Object.entries(vars)
render(tpl, entries) == renderFold(tpl, entries)

TemplatePieces ==
    { <<"{", "{", "A", "}", "}">>,
      <<"{", "{", "B", "}", "}">>,
      <<"{", "{", "C", "}", "}">>,
      <<"x">>,
      <<"{", "{">>,
      <<"B", "}", "}">> }

RenderTemplates == {Concat(ps) : ps \in SeqsUpTo(TemplatePieces, MaxParts)}

RenderKeys == { <<"A">>, <<"B">> }

RenderValues ==
    { Str(<<"x">>), Str(<<"{", "{", "A", "}", "}">>), Str(<<"{", "{", "B", "}", "}">>),
      Str(<<"{", "{">>), Str(<<"$", "&">>), Null, Undefined, Num(3) }

\* the entries of an object: distinct keys, in insertion order
RenderVars ==
    {es \in SeqsUpTo(RenderKeys \X RenderValues, 2) :
        \A i, j \in 1..Len(es) : i # j => es[i][1] # es[j][1]}

InitRenderCall ==
    /\ templateStr \in RenderTemplates
    /\ vars \in RenderVars
    /\ keyNo = 0
    /\ result = templateStr
    /\ rpc = "loop"

\* lines 115-118, one entry
RenderKey ==
    /\ rpc = "loop" /\ keyNo < Len(vars)
    /\ result' = renderEntry(result, vars[keyNo + 1])
    /\ keyNo' = keyNo + 1
    /\ UNCHANGED <<templateStr, vars, rpc>>
    /\ UNCHANGED <<escVars, mdVars, loadVars, buildVars, filterVars>>

\* line 119
RenderReturn ==
    /\ rpc = "loop" /\ keyNo = Len(vars)
    /\ rpc' = "returned"
    /\ UNCHANGED <<templateStr, vars, keyNo, result>>
    /\ UNCHANGED <<escVars, mdVars, loadVars, buildVars, filterVars>>

-----------------------------------------------------------------------------
(* loadPosts: build.mjs 163-202 *)

\* the characters dates are written with, in code unit order
CharOrder ==
    <<" ", "-", "0", "1", "2", "3", "4", "5", "6", "7", "8", "9", ":", "T", "Z">>

Code(u) == CHOOSE i \in 1..Len(CharOrder) : CharOrder[i] = u

\* a < b on strings: the first differing code unit decides, a proper prefix is less
RECURSIVE StrLess(_, _)
StrLess(a, b) ==
    IF b = <<>> THEN FALSE
    ELSE IF a = <<>> THEN TRUE
    ELSE IF Head(a) = Head(b) THEN StrLess(Tail(a), Tail(b))
    ELSE Code(Head(a)) < Code(Head(b))

\* Array.prototype.join
RECURSIVE join(_, _)
join(parts, sep) ==
    IF parts = <<>> THEN <<>>
    ELSE IF Len(parts) = 1 THEN parts[1]
    ELSE parts[1] \o sep \o join(Tail(parts), sep)

MD_EXT == <<".", "m", "d">>

\* file.endsWith('.md')
endsWith(s, suffix) == MatchAt(s, suffix, Len(s) - Len(suffix) + 1)

\* file.replace(/\.md$/, '')
slugOf(file) == IF endsWith(file, MD_EXT) THEN SubSeq(file, 1, Len(file) - Len(MD_EXT)) ELSE file

\* lines 176-179: the names of the falsy required fields, in the order tested
missingFields(fm) ==
    (IF ~Truthy(fm.title) THEN << <<"title">> >> ELSE <<>>)
        \o (IF ~Truthy(fm.date) THEN << <<"date">> >> ELSE <<>>)
        \o (IF ~Truthy(fm.author) THEN << <<"author">> >> ELSE <<>>)

\* line 181; the first unit stands for the literal text before the blog slug,
\* " (missing: " for the literal text before the list
frontmatterError(blogSlug, file, missing) ==
    <<"Frontmatter: ">> \o blogSlug \o <<"/posts/">> \o file
        \o <<" (missing: ">> \o join(missing, <<",", " ">>) \o <<")">>

\* lines 188-197
postOf(f) ==
    [slug    |-> slugOf(f.name),
     title   |-> f.fm.title,
     date    |-> sliceTo(String(f.fm.date), 10),
     author  |-> f.fm.author,
     excerpt |-> IF Truthy(f.fm.excerpt) THEN f.fm.excerpt ELSE Str(<<>>),
     tags    |-> IF f.fm.tags.isArray THEN f.fm.tags.items ELSE <<>>,
     content |-> f.content]

NoPost == postOf([name |-> <<>>, content |-> << <<>> >>,
                  fm |-> [title |-> Undefined, date |-> Undefined, author |-> Undefined,
                          draft |-> Undefined, excerpt |-> Undefined,
                          tags |-> [isArray |-> FALSE, items |-> <<>>]]])

loadFileDraftFirst(blogSlug, f) ==
    IF ~endsWith(f.name, MD_EXT) \/ Truthy(f.fm.draft)
    THEN [act |-> "continue", msg |-> <<>>, post |-> NoPost]
    ELSE IF missingFields(f.fm) # <<>>
    THEN [act |-> "exit", post |-> NoPost,
          msg |-> frontmatterError(blogSlug, f.name, missingFields(f.fm))]
    ELSE [act |-> "push", msg |-> <<>>, post |-> postOf(f)]

\* the body of the for loop, lines 168-198, for one directory entry
loadFile(blogSlug, f) ==
    IF ~endsWith(f.name, MD_EXT)
    THEN [act |-> "continue", msg |-> <<>>, post |-> NoPost]
    ELSE IF missingFields(f.fm) # <<>>
    THEN [act |-> "exit", post |-> NoPost,
          msg |-> frontmatterError(blogSlug, f.name, missingFields(f.fm))]
    ELSE IF Truthy(f.fm.draft)
    THEN [act |-> "continue", msg |-> <<>>, post |-> NoPost]
    ELSE [act |-> "push", msg |-> <<>>, post |-> postOf(f)]

comparePostsAscending(a, b) == IF StrLess(b.date, a.date) THEN 1 ELSE -1

\* the comparator of line 201 (and of lines 654 and 662)
comparePosts(a, b) == IF StrLess(a.date, b.date) THEN 1 ELSE -1

(* Array.prototype.sort as Node's engine runs it on an array shorter than 64:
   the leading run is found (and reversed when it descends in the comparator's
   order), the rest is inserted by binary search. *)

RECURSIVE runLength(_, _, _, _)
runLength(arr, isDescending, idx, len) ==
    IF idx > Len(arr) THEN len
    ELSE LET order == comparePosts(arr[idx], arr[idx - 1])
         IN  IF isDescending
             THEN IF order >= 0 THEN len ELSE runLength(arr, isDescending, idx + 1, len + 1)
             ELSE IF order < 0 THEN len ELSE runLength(arr, isDescending, idx + 1, len + 1)

Reverse(s) == [i \in 1..Len(s) |-> s[Len(s) + 1 - i]]

\* the array after CountAndMakeRun, and the length of the run
countAndMakeRun(arr) ==
    LET isDescending == comparePosts(arr[2], arr[1]) < 0
        len == runLength(arr, isDescending, 3, 2)
    IN  [len |-> len,
         arr |-> IF isDescending
                 THEN Reverse(SubSeq(arr, 1, len)) \o SubSeq(arr, len + 1, Len(arr))
                 ELSE arr]

\* the binary search for the place of pivot among arr[left+1 .. right] (0-based bounds)
RECURSIVE insertionPoint(_, _, _, _)
insertionPoint(arr, pivot, left, right) ==
    IF left >= right THEN left
    ELSE LET mid == left + ((right - left) \div 2)
         IN  IF comparePosts(pivot, arr[mid + 1]) < 0
             THEN insertionPoint(arr, pivot, left, mid)
             ELSE insertionPoint(arr, pivot, mid + 1, right)

\* BinaryInsertionSort from the 0-based index start on
RECURSIVE binaryInsertionSort(_, _)
binaryInsertionSort(arr, start) ==
    IF start >= Len(arr) THEN arr
    ELSE LET pivot == arr[start + 1]
             left == insertionPoint(arr, pivot, 0, start)
         IN  binaryInsertionSort(
                 SubSeq(arr, 1, left) \o <<pivot>> \o SubSeq(arr, left + 1, start)
                     \o SubSeq(arr, start + 2, Len(arr)),
                 start + 1)

\* arr.sort((a, b) => (a.date < b.date ? 1 : -1))
sortPosts(arr) ==
    IF Len(arr) < 2 THEN arr
    ELSE LET run == countAndMakeRun(arr) IN binaryInsertionSort(run.arr, run.len)

Exited(msg) == [called |-> TRUE, status |-> "exited", code |-> 1, stderr |-> msg, posts |-> <<>>]
ReturnedPosts(ps) ==
    [called |-> TRUE, status |-> "returned", code |-> 0, stderr |-> <<>>, posts |-> ps]
NotLoaded == [called |-> FALSE, status |-> "none", code |-> 0, stderr |-> <<>>, posts |-> <<>>]

\* the for loop of lines 168-198 from entry i on, acc the posts pushed so far
RECURSIVE loadLoop(_, _, _, _)
loadLoop(blogSlug, files, i, acc) ==
    IF i > Len(files) THEN ReturnedPosts(sortPosts(acc))
    ELSE LET r == loadFile(blogSlug, files[i])
         IN  CASE r.act = "exit"     -> Exited(r.msg)
               [] r.act = "continue" -> loadLoop(blogSlug, files, i + 1, acc)
               [] OTHER              -> loadLoop(blogSlug, files, i + 1, Append(acc, r.post))

\* the function as a whole; dir is the posts directory of the blog
loadPosts(blogSlug, dir) ==
    IF ~dir.exists THEN ReturnedPosts(<<>>) ELSE loadLoop(blogSlug, dir.files, 1, <<>>)

D_0101 == <<"2", "0", "2", "4", "-", "0", "1", "-", "0", "1">>
D_0201 == <<"2", "0", "2", "4", "-", "0", "2", "-", "0", "1">>
D_0301 == <<"2", "0", "2", "4", "-", "0", "3", "-", "0", "1">>
D_0301T == D_0301 \o <<"T", "1", "0", ":", "0", "0">>

Frontmatter(title, date, author, draft, excerpt, tags) ==
    [title |-> title, date |-> date, author |-> author, draft |-> draft,
     excerpt |-> excerpt, tags |-> tags]

Tags(items) == [isArray |-> TRUE, items |-> items]
NoTags == [isArray |-> FALSE, items |-> <<>>]

File(name, fm, content) == [name |-> name, fm |-> fm, content |-> content]

FileSamples ==
    { File(<<"a", ".", "m", "d">>,
           Frontmatter(Str(<<"A">>), Str(D_0101), Str(<<"m">>), Undefined,
                       Str(<<"e">>), Tags(<< <<"x">>, <<"y">> >>)),
           << <<"#", " ", "A">>, <<"-", " ", "b">> >>),
      File(<<"b", ".", "m", "d">>,
           Frontmatter(Str(<<"<">>), Str(D_0301), Str(<<"&">>), Bool(FALSE),
                       Undefined, Tags(<< <<"x">> >>)),
           << <<"t">> >>),
      File(<<"c", ".", "m", "d">>,
           Frontmatter(Str(<<"C">>), Str(D_0201), Str(<<"m">>), Undefined,
                       Str(<<"\"">>), NoTags),
           << <<>> >>),
      File(<<"d", ".", "m", "d">>,
           Frontmatter(Str(<<"D">>), Str(D_0301T), Str(<<"n">>), Undefined,
                       Undefined, Tags(<<>>)),
           << <<"1", ".", " ", "a">> >>),
      File(<<"e", ".", "m", "d">>,
           Frontmatter(Str(<<"E">>), Str(D_0201), Str(<<"m">>), Bool(TRUE),
                       Undefined, NoTags),
           << <<"t">> >>),
      File(<<"f", ".", "m", "d">>,
           Frontmatter(Str(<<"F">>), Str(D_0101), Undefined, Bool(TRUE),
                       Undefined, NoTags),
           << <<"t">> >>),
      File(<<"g", ".", "m", "d">>,
           Frontmatter(Str(<<>>), Str(D_0101), Undefined, Undefined,
                       Undefined, NoTags),
           << <<"t">> >>),
      File(<<"h", ".", "m", "d">>,
           Frontmatter(Str(<<"H">>), Null, Str(<<"m">>), Undefined,
                       Undefined, NoTags),
           << <<"t">> >>),
      File(<<"n", ".", "t", "x", "t">>,
           Frontmatter(Undefined, Undefined, Undefined, Undefined, Undefined, NoTags),
           << <<"t">> >>) }

\* a directory listing: distinct files, in whatever order the file system gives
Listings(n) ==
    {fs \in SeqsUpTo(FileSamples, n) :
        \A i, j \in 1..Len(fs) : i # j => fs[i].name # fs[j].name}

Dir(slug, exists, files) == [slug |-> slug, exists |-> exists, files |-> files]

InitLoadCall ==
    /\ postsDir \in {Dir(<<"s">>, FALSE, <<>>)}
                       \cup {Dir(<<"s">>, TRUE, fs) : fs \in Listings(MaxFiles)}
    /\ loaded = NotLoaded

CallLoadPosts ==
    /\ ~loaded.called
    /\ loaded' = loadPosts(postsDir.slug, postsDir)
    /\ UNCHANGED postsDir
    /\ UNCHANGED <<escVars, mdVars, renderVars, buildVars, filterVars>>

-----------------------------------------------------------------------------
(* The theme fragments: build.mjs 209-563.  The class names of a theme are
   written as the theme's prefix followed by a suffix; decoration (inline
   styles, glyphs) is shortened inside the markup units. *)

\* the prefix of the class names each if chain selects; its else branch is word
themePrefix(theme) ==
    CASE theme = "retro-cosmic" -> "cosmic"
      [] theme = "gym-log"      -> "gym"
      [] theme = "love-column"  -> "love"
      [] theme = "izakaya"      -> "izakaya"
      [] theme = "onsen-cosmos" -> "onsen"
      [] theme = "comedy-zine"  -> "zine"
      [] theme = "academy-log"  -> "academy"
      [] theme = "terminal"     -> "term"
      [] theme = "kawase-blog"  -> "kawase"
      [] theme = "sake-modern"  -> "sake"
      [] OTHER                  -> "word"

\* post.tags.map(t => `<span class="X-tag">#${esc(t)}</span>`).join('')
tagBadges(tags, p) ==
    Concat([i \in 1..Len(tags) |->
        <<"<span class=\"", p, "-tag\">#">> \o esc(Str(tags[i])) \o <<"</span>">>])

\* the opening of the date of a card of the seven themes that share the card
\* layout: lines 222, 236, 250, 264, 278, 292, 306
cardDateOpen(p) ==
    CASE p = "cosmic" -> <<"</div>\n    <span style=\"...\">(calendar) ">>
      [] p = "onsen"  -> <<"</div>\n    <span class=\"onsen-card-date\">(moon) ">>
      [] p = "zine"   -> <<"</div>\n    <span class=\"zine-card-date\">">>
      [] OTHER        -> <<"</div>\n    <span class=\"", p, "-card-date\">(calendar) ">>

\* one card of buildPostListHtml, lines 214-363
postCard(post, theme) ==
    LET p       == themePrefix(theme)
        slug    == esc(Str(post.slug))
        tags    == esc(Str(join(post.tags, <<",">>)))
        title   == esc(post.title)
        date    == esc(Str(post.date))
        excerpt == esc(post.excerpt)
        author  == esc(post.author)
        badges  == tagBadges(post.tags, p)
    IN  CASE p = "term" ->
               <<"<a href=\"posts/">> \o slug
                 \o <<".html\" class=\"term-post-entry\" data-post-tags=\"">> \o tags
                 \o <<"\">\n  <span class=\"term-post-date\">">> \o date
                 \o <<"</span>\n  <span class=\"term-post-author\">">> \o author
                 \o <<"</span>\n  <span class=\"term-post-title\">">> \o title
                 \o <<"</span>\n  <div class=\"term-post-excerpt\">">> \o excerpt
                 \o <<"</div>\n  <div class=\"term-post-tags\">">> \o badges
                 \o <<"</div>\n</a>">>
          [] p \in {"kawase", "sake"} ->
               <<"<a href=\"posts/">> \o slug
                 \o <<".html\" class=\"", p, "-post-card\" data-post-tags=\"">> \o tags
                 \o <<"\">\n  <div class=\"", p, "-card-date\">(calendar) ">> \o date
                 \o <<"</div>\n  <div class=\"", p, "-card-title\">">> \o title
                 \o <<"</div>\n  <p class=\"", p, "-card-excerpt\">">> \o excerpt
                 \o <<"</p>\n  <div class=\"", p, "-card-footer\">\n    <span class=\"", p,
                      "-card-meta\">(pen) ">> \o author
                 \o <<"</span>\n    <div class=\"", p, "-card-tags\">">> \o badges
                 \o <<"</div>\n  </div>\n</a>">>
          [] p = "word" ->
               <<"<a href=\"posts/">> \o slug
                 \o <<".html\" class=\"word-blog-entry\" data-post-tags=\"">> \o tags
                 \o <<"\">\n  <div style=\"...\">\n    <div class=\"word-blog-entry-title\">">>
                 \o title
                 \o <<"</div>\n    <span style=\"...\">(calendar) ">> \o date
                 \o <<"</span>\n  </div>\n  <p class=\"word-blog-excerpt\" style=\"...\">">>
                 \o excerpt
                 \o <<"</p>\n  <div style=\"...\">\n    <span style=\"...\">(pen) ">> \o author
                 \o <<"</span>\n    <div>">> \o badges
                 \o <<"</div>\n  </div>\n</a>">>
          [] OTHER ->
               <<"<a href=\"posts/">> \o slug
                 \o <<".html\" class=\"", p, "-post-card\" data-post-tags=\"">> \o tags
                 \o <<"\">\n  <div style=\"...\">\n    <div class=\"", p, "-card-title\">">>
                 \o title
                 \o cardDateOpen(p) \o date
                 \o <<"</span>\n  </div>\n  <p class=\"", p, "-card-excerpt\">">> \o excerpt
                 \o <<"</p>\n  <div style=\"...\">\n    <span class=\"", p,
                      "-card-meta\">(pen) ">> \o author
                 \o <<"</span>\n    <div>">> \o badges
                 \o <<"</div>\n  </div>\n</a>">>

\* lines 209-365
buildPostListHtml(ps, blogSlug, theme) ==
    IF Len(ps) = 0
    THEN <<"<p style=\"color:#999;padding:20px 0\">(no posts yet)</p>">>
    ELSE join([i \in 1..Len(ps) |-> postCard(ps[i], theme)], <<"\n">>)

\* a variant of dedupe that keeps the repeated tags
dedupeKeepsAll(ts, seen) == seen \o ts

\* [...new Set(posts.flatMap(p => p.tags))]: the tags in first-seen order
RECURSIVE dedupe(_, _)
dedupe(ts, seen) ==
    IF ts = <<>> THEN seen
    ELSE dedupe(Tail(ts), IF Head(ts) \in Range(seen) THEN seen ELSE Append(seen, Head(ts)))

allTagsOf(ps) == dedupe(Concat([i \in 1..Len(ps) |-> ps[i].tags]), <<>>)

\* the themes whose 'show all' button carries an active-state class; the
\* others mark it with an inline style
hasActiveClass(theme) == themePrefix(theme) \in {"cosmic", "term", "kawase", "sake", "word"}

\* allBtn of lines 373-454
allButton(theme) ==
    LET p == themePrefix(theme)
    IN  IF hasActiveClass(theme)
        THEN <<"<button data-tag-btn=\"__all__\" class=\"", p, "-tag ", p,
               "-tag-active\">(all)</button>">>
        ELSE <<"<button data-tag-btn=\"__all__\" class=\"", p,
               "-tag\" style=\"...\">(all)</button>">>

\* buttons of lines 374-455
tagButtons(tags, theme) ==
    LET p == themePrefix(theme)
    IN  Concat([i \in 1..Len(tags) |->
            <<"<button data-tag-btn=\"">> \o esc(Str(tags[i]))
              \o <<"\" class=\"", p, "-tag\">#">> \o esc(Str(tags[i])) \o <<"</button>">>])

\* lines 368-462
buildTagFilterHtml(ps, theme) ==
    LET allTags == allTagsOf(ps)
        p == themePrefix(theme)
        buttons == allButton(theme) \o tagButtons(allTags, theme)
    IN  IF Len(allTags) = 0 THEN <<>>
        ELSE CASE p = "cosmic" ->
                    <<"<div class=\"cosmic-tag-filter\">\n  <div class=\"cosmic-tag-filter-heading\">(filter by tag)</div>\n  <div style=\"...\">">>
                      \o buttons
                      \o <<"</div>\n</div>\n<div class=\"retro-separator\"></div>">>
               [] p = "term" ->
                    <<"<div class=\"term-tag-filter term-block\" style=\"padding:10px\">\n  <span class=\"term-prompt-mini\">$</span> grep --tag:\n  <div style=\"...\">">>
                      \o buttons \o <<"</div>\n</div>">>
               [] p \in {"kawase", "sake"} ->
                    <<"<div class=\"", p, "-tag-filter\">\n  <div class=\"", p,
                      "-tag-filter-heading\">(filter by tag)</div>\n  <div class=\"", p,
                      "-tag-filter-wrap\">">>
                      \o buttons \o <<"</div>\n</div>">>
               [] p = "word" ->
                    <<"<div class=\"word-section\">\n  <div class=\"word-section-heading\">(filter by tag)</div>\n  <div style=\"...\">">>
                      \o buttons
                      \o <<"</div>\n</div>\n<div class=\"word-section-break\"></div>">>
               [] OTHER ->
                    <<"<div class=\"", p, "-tag-filter\">\n  <div class=\"", p,
                      "-tag-filter-heading\">(filter by tag)</div>\n  <div style=\"...\">">>
                      \o buttons \o <<"</div>\n</div>">>

Some(post) == [some |-> TRUE, post |-> post]
None == [some |-> FALSE, post |-> NoPost]

\* lines 465-535; post is Some(post) or None (null)
buildNavCard(post, label, blogSlug, theme) ==
    LET p == themePrefix(theme)
        slug  == esc(Str(post.post.slug))
        title == esc(post.post.title)
        date  == esc(Str(post.post.date))
    IN  IF ~post.some THEN <<"<div></div>">>
        ELSE IF p = "word"
        THEN <<"<a href=\"">> \o slug
               \o <<".html\" class=\"word-blog-card\" style=\"padding:12px\">\n  <div style=\"...\">">>
               \o esc(Str(label))
               \o <<"</div>\n  <div class=\"word-bold word-text-blue\" style=\"...\">">> \o title
               \o <<"</div>\n  <div style=\"...\">">> \o date
               \o <<"</div>\n</a>">>
        ELSE <<"<a href=\"">> \o slug
               \o <<".html\" class=\"", p, "-nav-card\">\n  <div class=\"", p, "-nav-label\">">>
               \o esc(Str(label))
               \o <<"</div>\n  <div class=\"", p, "-nav-title\">">> \o title
               \o <<"</div>\n  <div class=\"", p, "-nav-date\">">> \o date
               \o <<"</div>\n</a>">>

\* lines 538-563
buildTagsHtml(tags, theme) ==
    IF Len(tags) = 0 THEN <<>> ELSE tagBadges(tags, themePrefix(theme))

-----------------------------------------------------------------------------
(* Dates of the home page: build.mjs 656-666 *)

DigitValue(u) == CHOOSE d \in 0..9 : Digit(d) = u

RECURSIVE Number(_)
Number(ds) == IF ds = <<>> THEN 0 ELSE 10 * Number(SubSeq(ds, 1, Len(ds) - 1)) + DigitValue(ds[Len(ds)])

\* days from 1970-01-01 to the civil date y-m-d
daysFromCivil(y, m, d) ==
    LET yy  == IF m <= 2 THEN y - 1 ELSE y
        era == yy \div 400
        yoe == yy - era * 400
        mp  == (m + 9) % 12
        doy == (153 * mp + 2) \div 5 + d - 1
        doe == yoe * 365 + yoe \div 4 - yoe \div 100 + doy
    IN  era * 146097 + doe - 719468

\* a date string of the form YYYY-MM-DD
IsIsoDate(s) ==
    /\ Len(s) = 10
    /\ s[5] = "-" /\ s[8] = "-"
    /\ \A i \in {1, 2, 3, 4, 6, 7, 9, 10} : IsDigit(s[i])

\* a date-time string of the form YYYY-MM-DDThh:00
IsIsoDateTime(s) ==
    /\ Len(s) = 16 /\ IsIsoDate(SubSeq(s, 1, 10))
    /\ s[11] = "T" /\ IsDigit(s[12]) /\ IsDigit(s[13])
    /\ SubSeq(s, 14, 16) = <<":", "0", "0">>

\* new Date(s) for a date-only string: midnight UTC, in hours since the epoch
dateHours(s) ==
    24 * daysFromCivil(Number(SubSeq(s, 1, 4)), Number(SubSeq(s, 6, 7)), Number(SubSeq(s, 9, 10)))

\* new Date(s) for a date-time string without offset: local time in the zone
\* of offset tz, in hours since the epoch
dateTimeHours(s, tz) == dateHours(SubSeq(s, 1, 10)) + Number(SubSeq(s, 12, 13)) - tz

\* new Date() of the run, in hours since the epoch; now is the local date and
\* hour of the run and the offset of the local zone from UTC
nowHours(now) == 24 * daysFromCivil(now.y, now.m, now.d) + now.hour - now.tz

\* the posts of allPostsForTop of one blog
postsOfBlog(all, slug) == SelectSeq(all, LAMBDA q : q.blogSlug = slug)

\* lines 659-666
isRecent(all, slug, now) ==
    LET blogPosts == postsOfBlog(all, slug)
    IN  IF Len(blogPosts) = 0 THEN FALSE
        ELSE LET latest == sortPosts(blogPosts)[1]
                 weekAgo == nowHours(now) - 7 * 24
             IN  \/ IsIsoDate(latest.date) /\ dateHours(latest.date) > weekAgo
                 \/ IsIsoDateTime(latest.date)
                      /\ dateTimeHours(latest.date, now.tz) > weekAgo

\* toLocaleDateString('ja-JP', {year: 'numeric', month: 'long', day: 'numeric'});
\* the units (year), (month), (day) stand for the three characters of the format
buildDateOf(now) ==
    Decimal(now.y) \o <<"(year)">> \o Decimal(now.m) \o <<"(month)">>
        \o Decimal(now.d) \o <<"(day)">>

-----------------------------------------------------------------------------
(* The file system of a run.  A directory is [exists, files]; a file of the
   output directory is [path, content, run, vars]: run tells whether this run
   or an earlier one wrote it, vars is the mapping a page was rendered from
   (empty for a file that is not a rendered page). *)

FileOf(path, content, run, entries) ==
    [path |-> path, content |-> content, run |-> run, vars |-> entries]

NoDir == [exists |-> FALSE, files |-> {}]

\* lines 138-142: the directory is made, the file replaces any file of that path
writeFile(d, path, content, entries) ==
    [exists |-> TRUE,
     files  |-> {f \in d.files : f.path # path} \cup {FileOf(path, content, "this", entries)}]

rmSyncKeepsFiles(d) == d

\* line 574: fs.rmSync(DIST, {recursive: true}) when DIST exists
rmSync(d) == NoDir

\* lines 134-136
ensureDir(d) == [d EXCEPT !.exists = TRUE]

\* lines 145-157; src is the set of the paths of the files under public/
copyDir(src, d) ==
    IF ~src.exists THEN d
    ELSE [exists |-> TRUE,
          files  |-> {f \in d.files : f.path \notin src.files}
                        \cup {FileOf(p, <<"(asset)">>, "this", <<>>) : p \in src.files}]

templateExistsAlways(templates, path) == TRUE

\* path.join(TEMPLATES, relativePath) exists, line 124
templateExists(templates, path) == path \in templates

\* the text of a template: the placeholders the page recognizes, each in an element
templateText(keys) ==
    Concat([i \in 1..Len(keys) |-> <<"<div>">> \o Placeholder(keys[i]) \o <<"</div>\n">>])

Key(name) == <<name>>

BlogListKeys ==
    << Key("BLOG_TITLE"), Key("BLOG_DESC"), Key("BLOG_AUTHOR"), Key("BLOG_EMOJI"),
       Key("BLOG_SLUG"), Key("PLANET_JA"), Key("PLANET_EN"), Key("POST_COUNT"),
       Key("LATEST_DATE"), Key("POST_LIST"), Key("TAG_FILTER") >>

PostKeys ==
    << Key("POST_TITLE"), Key("POST_DATE"), Key("POST_AUTHOR"), Key("POST_EXCERPT"),
       Key("POST_SLUG"), Key("POST_CONTENT"), Key("POST_TAGS"), Key("POST_TAGS_RAW"),
       Key("BLOG_TITLE"), Key("BLOG_EMOJI"), Key("BLOG_SLUG"), Key("PREV_POST"),
       Key("NEXT_POST") >>

HomeKeys ==
    << Key("SITE_TITLE"), Key("BUILD_DATE"), Key("BLOG_TABLE_ROWS"), Key("TOTAL_BLOGS"),
       Key("TOTAL_POSTS"), Key("LATEST_DATE"), Key("LATEST_POSTS") >>

blogListPath(theme) == <<theme, "/blog-list.html">>
postTemplatePath(theme) == <<theme, "/post.html">>
HOME_TEMPLATE == <<"home.html">>
NOT_FOUND_TEMPLATE == <<"404.html">>

\* fs.readFileSync of a template that exists
readTemplate(path) ==
    CASE path = HOME_TEMPLATE -> templateText(HomeKeys)
      [] path = NOT_FOUND_TEMPLATE -> <<"<h1>404</h1>">>
      [] path[2] = "/post.html" -> templateText(PostKeys)
      [] OTHER -> templateText(BlogListKeys)

\* blog.theme || 'word-retro', line 595; "" is an absent or empty theme
themeOf(blog) == IF blog.theme = "" THEN "word-retro" ELSE blog.theme

\* posts[0]?.date || 'N/A', lines 615 and 703
latestDate(ps) ==
    IF Len(ps) > 0 /\ Len(ps[1].date) > 0 THEN Str(ps[1].date) ELSE Str(<<"N", "/", "A">>)

\* the mapping of lines 606-618
blogListVars(blog, ps) ==
    << <<Key("BLOG_TITLE"), blog.title>>,
       <<Key("BLOG_DESC"), blog.desc>>,
       <<Key("BLOG_AUTHOR"), blog.author>>,
       <<Key("BLOG_EMOJI"), blog.planet.emoji>>,
       <<Key("BLOG_SLUG"), Str(blog.slug)>>,
       <<Key("PLANET_JA"), blog.planet.nameJa>>,
       <<Key("PLANET_EN"), blog.planet.name>>,
       <<Key("POST_COUNT"), Num(Len(ps))>>,
       <<Key("LATEST_DATE"), latestDate(ps)>>,
       <<Key("POST_LIST"), Str(buildPostListHtml(ps, blog.slug, themeOf(blog)))>>,
       <<Key("TAG_FILTER"), Str(buildTagFilterHtml(ps, themeOf(blog)))>> >>

\* post.tags.map(t => `"${esc(t)}"`).join(', '), line 637
tagsRaw(tags) ==
    join([i \in 1..Len(tags) |-> <<"\"">> \o esc(Str(tags[i])) \o <<"\"">>], <<",", " ">>)

\* the mapping of lines 629-643 for the post at index i (from 1) of ps
postVars(blog, ps, i) ==
    LET post == ps[i]
        prevPost == IF i < Len(ps) THEN Some(ps[i + 1]) ELSE None
        nextPost == IF i > 1 THEN Some(ps[i - 1]) ELSE None
        theme == themeOf(blog)
    IN  << <<Key("POST_TITLE"), post.title>>,
           <<Key("POST_DATE"), Str(post.date)>>,
           <<Key("POST_AUTHOR"), post.author>>,
           <<Key("POST_EXCERPT"), post.excerpt>>,
           <<Key("POST_SLUG"), Str(post.slug)>>,
           <<Key("POST_CONTENT"), Str(renderMarkdown(post.content))>>,
           <<Key("POST_TAGS"), Str(buildTagsHtml(post.tags, theme))>>,
           <<Key("POST_TAGS_RAW"), Str(tagsRaw(post.tags))>>,
           <<Key("BLOG_TITLE"), blog.title>>,
           <<Key("BLOG_EMOJI"), blog.planet.emoji>>,
           <<Key("BLOG_SLUG"), Str(blog.slug)>>,
           <<Key("PREV_POST"), Str(buildNavCard(prevPost, <<"(previous post)">>, blog.slug, theme))>>,
           <<Key("NEXT_POST"), Str(buildNavCard(nextPost, <<"(next post)">>, blog.slug, theme))>> >>

\* line 602: { ...p, blogSlug, blogTitle, blogEmoji }
topPost(p, blog) ==
    [slug |-> p.slug, title |-> p.title, date |-> p.date, author |-> p.author,
     excerpt |-> p.excerpt, tags |-> p.tags, content |-> p.content,
     blogSlug |-> blog.slug, blogTitle |-> blog.title, blogEmoji |-> blog.planet.emoji]

NEW_BADGE == "<span class=\"word-new-badge\">NEW</span>"

\* one row of lines 669-680
blogTableRow(blog, all, now) ==
    LET count == Len(postsOfBlog(all, blog.slug))
        newBadge == IF isRecent(all, blog.slug, now) THEN <<NEW_BADGE>> ELSE <<>>
    IN  <<"<tr>\n  <td><a href=\"blogs/">> \o esc(Str(blog.slug))
          \o <<"/index.html\" class=\"word-hyperlink\"><span class=\"word-emoji\">">>
          \o esc(blog.planet.emoji) \o <<"</span>">> \o esc(blog.title) \o newBadge
          \o <<"</a></td>\n  <td>">> \o esc(blog.desc)
          \o <<"</td>\n  <td>">> \o esc(blog.author)
          \o <<"</td>\n  <td class=\"word-bold\">">> \o Decimal(count)
          \o <<"</td>\n</tr>">>

blogTableRows(blogs, all, now) ==
    join([i \in 1..Len(blogs) |-> blogTableRow(blogs[i], all, now)], <<"\n">>)

\* one entry of lines 683-694
latestPostEntry(post) ==
    LET tagsHtml == tagBadges(post.tags, "word")
    IN  <<"<a href=\"blogs/">> \o esc(Str(post.blogSlug)) \o <<"/posts/">>
          \o esc(Str(post.slug))
          \o <<".html\" class=\"word-blog-entry\">\n  <div class=\"word-blog-entry-title\">\n    <span class=\"word-emoji\">">>
          \o esc(post.blogEmoji) \o <<"</span>">> \o esc(post.title)
          \o <<"\n  </div>\n  <div class=\"word-blog-meta\">(author): ">> \o esc(post.author)
          \o <<" | (blog): ">> \o esc(post.blogTitle)
          \o <<" | (date): ">> \o esc(Str(post.date))
          \o <<"</div>\n  <p class=\"word-blog-excerpt\">">> \o esc(post.excerpt)
          \o <<"</p>\n  ">>
          \o (IF tagsHtml # <<>>
              THEN <<"<div style=\"margin-top:8px\">">> \o tagsHtml \o <<"</div>">>
              ELSE <<>>)
          \o <<"\n</a>">>

\* allSorted.slice(0, 10), line 655
latestTopOf(allSorted) == sliceTo(allSorted, 10)

latestPostsHtml(allSorted) ==
    LET top == latestTopOf(allSorted)
    IN  join([i \in 1..Len(top) |-> latestPostEntry(top[i])], <<"\n">>)

\* the mapping of lines 697-705; all is allPostsForTop after the sort of line 654
homeVars(blogs, all, now) ==
    << <<Key("SITE_TITLE"), Str(<<"(site title)">>)>>,
       <<Key("BUILD_DATE"), Str(buildDateOf(now))>>,
       <<Key("BLOG_TABLE_ROWS"), Str(blogTableRows(blogs, all, now))>>,
       <<Key("TOTAL_BLOGS"), Num(Len(blogs))>>,
       <<Key("TOTAL_POSTS"), Num(Len(all))>>,
       <<Key("LATEST_DATE"), latestDate(latestTopOf(all))>>,
       <<Key("LATEST_POSTS"), Str(latestPostsHtml(all))>> >>

\* the paths of the files of the output directory, relative to it
blogIndexFile(blog) == <<"blogs/">> \o blog.slug \o <<"/index.html">>
postFile(blog, post) == <<"blogs/">> \o blog.slug \o <<"/posts/">> \o post.slug \o <<".html">>
HOME_FILE == <<"index.html">>
NOT_FOUND_FILE == <<"404.html">>
NOJEKYLL_FILE == <<".nojekyll">>

-----------------------------------------------------------------------------
(* build: build.mjs 569-722.  env is what the run finds: whether the
   frontmatter parser can be imported, public/, content/blogs.json, the posts
   directory of each blog, the templates that exist and the clock. *)

Planet == [emoji |-> Str(<<"*">>), nameJa |-> Str(<<"(planet)">>), name |-> Str(<<"M">>)]

Blog(slug, title, desc, author, theme) ==
    [slug |-> slug, title |-> title, desc |-> desc, author |-> author,
     theme |-> theme, planet |-> Planet]

FileNamed(n) == CHOOSE f \in FileSamples : f.name = n \o MD_EXT

BlogSamples ==
    { Blog(<<"s">>, Str(<<"<", "T">>), Str(<<"&">>), Str(<<"k">>), ""),
      Blog(<<"t">>, Str(<<"U">>), Str(<<"d">>), Str(<<"\"">>), "terminal"),
      Blog(<<"u">>, Str(<<"V">>), Str(<<"d">>), Str(<<"k">>), "nope"),
      Blog(<<"v">>, Str(<<"W">>), Str(<<">">>), Str(<<"k">>), "kawase-blog") }

\* content/<slug>/posts of each sample blog
ContentSamples ==
    [slug \in {b.slug : b \in BlogSamples} |->
        CASE slug = <<"s">> -> Dir(slug, TRUE, <<FileNamed(<<"a">>), FileNamed(<<"b">>)>>)
          [] slug = <<"t">> -> Dir(slug, TRUE, <<FileNamed(<<"e">>), FileNamed(<<"c">>)>>)
          [] slug = <<"v">> -> Dir(slug, TRUE, <<FileNamed(<<"d">>), FileNamed(<<"g">>)>>)
          [] OTHER          -> Dir(slug, FALSE, <<>>)]

\* the blogs of blogs.json: distinct slugs
BlogLists ==
    {bs \in SeqsUpTo(BlogSamples, MaxBlogs) :
        \A i, j \in 1..Len(bs) : i # j => bs[i].slug # bs[j].slug}

TemplatePaths ==
    {HOME_TEMPLATE, NOT_FOUND_TEMPLATE}
        \cup {blogListPath(themeOf(b)) : b \in BlogSamples}
        \cup {postTemplatePath(themeOf(b)) : b \in BlogSamples}

\* an output directory left by an earlier run
OldDist ==
    [exists |-> TRUE,
     files  |-> {FileOf(HOME_FILE, <<"(old)">>, "earlier", <<>>),
                 FileOf(<<"blogs/", "o", "/index.html">>, <<"(old)">>, "earlier", <<>>)}]

PublicSamples ==
    {NoDir, [exists |-> TRUE, files |-> {<<"assets/js/tag-filter.js">>}]}

\* the local date and hour of the run and the zone's offset from UTC in hours
NowSamples ==
    { [y |-> 2024, m |-> 3, d |-> 7, hour |-> 12, tz |-> 9],
      [y |-> 2024, m |-> 3, d |-> 7, hour |-> 23, tz |-> -5],
      [y |-> 2024, m |-> 3, d |-> 9, hour |-> 0,  tz |-> 9],
      [y |-> 2024, m |-> 3, d |-> 9, hour |-> 23, tz |-> -5] }

Envs ==
    [matter    : BOOLEAN,
     old       : {NoDir, OldDist},
     public    : PublicSamples,
     blogsJson : BOOLEAN,
     blogs     : BlogLists,
     content   : {ContentSamples},
     templates : {TemplatePaths} \cup {TemplatePaths \ {t} : t \in TemplatePaths},
     now       : NowSamples]

InitBuildRun ==
    /\ env \in Envs
    /\ dist = env.old
    /\ pc = "loadGrayMatter"
    /\ blogNo = 0 /\ postNo = 0
    /\ posts = <<>> /\ allPostsForTop = <<>>
    /\ exitCode = <<>> /\ stderr = <<>>

\* process.exit(1) after console.error(msg)
Exit1(msg) ==
    /\ pc' = "exited" /\ exitCode' = <<1>> /\ stderr' = msg
    /\ UNCHANGED <<env, dist, blogNo, postNo, posts, allPostsForTop>>

\* the next position of the blog loop once blog number n is finished
afterBlog(n) == IF n < Len(env.blogs) THEN "loadPosts" ELSE "home"

\* line 571, the import succeeds
LoadGrayMatter ==
    /\ pc = "loadGrayMatter" /\ env.matter
    /\ pc' = "recreateDist"
    /\ UNCHANGED <<env, dist, blogNo, postNo, posts, allPostsForTop, exitCode, stderr>>
    /\ UNCHANGED <<escVars, mdVars, renderVars, loadVars, filterVars>>

\* lines 32-47, the import fails
GrayMatterMissing ==
    /\ pc = "loadGrayMatter" /\ ~env.matter
    /\ Exit1(<<"(gray-matter not found)">>)
    /\ UNCHANGED <<escVars, mdVars, renderVars, loadVars, filterVars>>

\* lines 574-575
RecreateDist ==
    /\ pc = "recreateDist"
    /\ dist' = ensureDir(IF dist.exists THEN rmSync(dist) ELSE dist)
    /\ pc' = "copyAssets"
    /\ UNCHANGED <<env, blogNo, postNo, posts, allPostsForTop, exitCode, stderr>>
    /\ UNCHANGED <<escVars, mdVars, renderVars, loadVars, filterVars>>

\* line 579
CopyAssets ==
    /\ pc = "copyAssets"
    /\ dist' = copyDir(env.public, dist)
    /\ pc' = "readBlogsJson"
    /\ UNCHANGED <<env, blogNo, postNo, posts, allPostsForTop, exitCode, stderr>>
    /\ UNCHANGED <<escVars, mdVars, renderVars, loadVars, filterVars>>

\* lines 582-591, blogs.json exists
ReadBlogsJson ==
    /\ pc = "readBlogsJson" /\ env.blogsJson
    /\ allPostsForTop' = <<>>
    /\ blogNo' = IF Len(env.blogs) > 0 THEN 1 ELSE 0
    /\ pc' = afterBlog(0)
    /\ UNCHANGED <<env, dist, postNo, posts, exitCode, stderr>>
    /\ UNCHANGED <<escVars, mdVars, renderVars, loadVars, filterVars>>

\* lines 583-586
BlogsJsonMissing ==
    /\ pc = "readBlogsJson" /\ ~env.blogsJson
    /\ Exit1(<<"content/blogs.json (not found)">>)
    /\ UNCHANGED <<escVars, mdVars, renderVars, loadVars, filterVars>>

\* lines 598-602, loadPosts returns
LoadBlogPosts ==
    /\ pc = "loadPosts"
    /\ LET blog == env.blogs[blogNo]
           r == loadPosts(blog.slug, env.content[blog.slug])
       IN  /\ r.status = "returned"
           /\ posts' = r.posts
           /\ allPostsForTop' =
                  allPostsForTop \o [i \in 1..Len(r.posts) |-> topPost(r.posts[i], blog)]
    /\ pc' = "blogList"
    /\ UNCHANGED <<env, dist, blogNo, postNo, exitCode, stderr>>
    /\ UNCHANGED <<escVars, mdVars, renderVars, loadVars, filterVars>>

\* line 598, loadPosts exits the process (lines 180-183)
FrontmatterInvalid ==
    /\ pc = "loadPosts"
    /\ LET blog == env.blogs[blogNo]
           r == loadPosts(blog.slug, env.content[blog.slug])
       IN  /\ r.status = "exited"
           /\ Exit1(r.stderr)
    /\ UNCHANGED <<escVars, mdVars, renderVars, loadVars, filterVars>>

\* the template the next page needs
templateNeeded ==
    CASE pc = "blogList" -> blogListPath(themeOf(env.blogs[blogNo]))
      [] pc = "postPage" -> postTemplatePath(themeOf(env.blogs[blogNo]))
      [] pc = "home"     -> HOME_TEMPLATE
      [] OTHER           -> NOT_FOUND_TEMPLATE

\* lines 605-620
WriteBlogList ==
    /\ pc = "blogList"
    /\ templateExists(env.templates, templateNeeded)
    /\ LET blog == env.blogs[blogNo]
           entries == blogListVars(blog, posts)
       IN  dist' = writeFile(dist, blogIndexFile(blog),
                             render(readTemplate(templateNeeded), entries), entries)
    /\ IF Len(posts) > 0
       THEN postNo' = 1 /\ pc' = "postPage" /\ blogNo' = blogNo
       ELSE postNo' = 0 /\ pc' = afterBlog(blogNo)
                /\ blogNo' = IF blogNo < Len(env.blogs) THEN blogNo + 1 ELSE blogNo
    /\ UNCHANGED <<env, posts, allPostsForTop, exitCode, stderr>>
    /\ UNCHANGED <<escVars, mdVars, renderVars, loadVars, filterVars>>

\* lines 623-649, one post
WritePostPage ==
    /\ pc = "postPage"
    /\ templateExists(env.templates, templateNeeded)
    /\ LET blog == env.blogs[blogNo]
           entries == postVars(blog, posts, postNo)
       IN  dist' = writeFile(dist, postFile(blog, posts[postNo]),
                             render(readTemplate(templateNeeded), entries), entries)
    /\ IF postNo < Len(posts)
       THEN postNo' = postNo + 1 /\ pc' = "postPage" /\ blogNo' = blogNo
       ELSE postNo' = 0 /\ pc' = afterBlog(blogNo)
                /\ blogNo' = IF blogNo < Len(env.blogs) THEN blogNo + 1 ELSE blogNo
    /\ UNCHANGED <<env, posts, allPostsForTop, exitCode, stderr>>
    /\ UNCHANGED <<escVars, mdVars, renderVars, loadVars, filterVars>>

\* lines 652-707
WriteHome ==
    /\ pc = "home"
    /\ templateExists(env.templates, templateNeeded)
    /\ LET allSorted == sortPosts(allPostsForTop)
           entries == homeVars(env.blogs, allSorted, env.now)
       IN  /\ allPostsForTop' = allSorted
           /\ dist' = writeFile(dist, HOME_FILE,
                                render(readTemplate(templateNeeded), entries), entries)
    /\ pc' = "notFound"
    /\ UNCHANGED <<env, blogNo, postNo, posts, exitCode, stderr>>
    /\ UNCHANGED <<escVars, mdVars, renderVars, loadVars, filterVars>>

\* lines 710-711
WriteNotFound ==
    /\ pc = "notFound"
    /\ templateExists(env.templates, templateNeeded)
    /\ dist' = writeFile(dist, NOT_FOUND_FILE, readTemplate(templateNeeded), <<>>)
    /\ pc' = "nojekyll"
    /\ UNCHANGED <<env, blogNo, postNo, posts, allPostsForTop, exitCode, stderr>>
    /\ UNCHANGED <<escVars, mdVars, renderVars, loadVars, filterVars>>

\* readTemplate throws (line 125) and the catch of lines 719-722 exits
TemplateMissing ==
    /\ pc \in {"blogList", "postPage", "home", "notFound"}
    /\ ~templateExists(env.templates, templateNeeded)
    /\ Exit1(<<"(build error) ", "(template not found) ">> \o templateNeeded)
    /\ UNCHANGED <<escVars, mdVars, renderVars, loadVars, filterVars>>

\* lines 714-717: the last file, and the run ends normally
WriteNoJekyll ==
    /\ pc = "nojekyll"
    /\ dist' = writeFile(dist, NOJEKYLL_FILE, <<>>, <<>>)
    /\ pc' = "done" /\ exitCode' = <<0>>
    /\ UNCHANGED <<env, blogNo, postNo, posts, allPostsForTop, stderr>>
    /\ UNCHANGED <<escVars, mdVars, renderVars, loadVars, filterVars>>


-----------------------------------------------------------------------------
(* The tag filter of a generated blog-list page: docs/assets/js/tag-filter.js.
   The document is read off the two fragments the build put into the page: an
   attribute value is the text between the markup units around it, with the
   entities read back as the HTML parser does.  A class name is the pair of
   units the fragment builders write it with. *)

\* the sentinel '__all__'
ALL == <<"_", "_", "a", "l", "l", "_", "_">>

Class(p, suffix) == <<p, suffix>>

\* the elements of a set of indices in increasing order
Ascending(S) ==
    [k \in 1..Cardinality(S) |-> CHOOSE i \in S : Cardinality({j \in S : j < i}) = k - 1]

\* the least index from i on whose unit is in U, or 0
FirstUnit(s, i, U) == FirstOf({j \in i..Len(s) : s[j] \in U})

BTN_ALL   == "<button data-tag-btn=\"__all__\" class=\""
BTN_TAG   == "<button data-tag-btn=\""
BTN_CLASS == "\" class=\""

\* the button element whose start tag begins at unit i of s
buttonAt(s, i) ==
    IF s[i] = BTN_ALL
    THEN IF s[i + 2] = "-tag "
         THEN [tag |-> ALL, style |-> FALSE,
               classes |-> {Class(s[i + 1], "-tag"), Class(s[i + 3], "-tag-active")}]
         ELSE [tag |-> ALL, style |-> TRUE, classes |-> {Class(s[i + 1], "-tag")}]
    ELSE LET j == FirstUnit(s, i + 1, {BTN_CLASS})
         IN  [tag |-> unescape(SubSeq(s, i + 1, j - 1)), style |-> FALSE,
              classes |-> {Class(s[j + 1], "-tag")}]

\* document.querySelectorAll('[data-tag-btn]'), line 8
domButtons(s) ==
    LET at == Ascending({i \in 1..Len(s) : s[i] \in {BTN_ALL, BTN_TAG}})
    IN  [k \in 1..Len(at) |-> buttonAt(s, at[k])]

CARD_OPEN == "<a href=\"posts/"

\* the units that end with data-post-tags=" in the cards of the themes
TagsAttrOpen ==
    {".html\" class=\"term-post-entry\" data-post-tags=\"",
     ".html\" class=\"word-blog-entry\" data-post-tags=\"",
     "-post-card\" data-post-tags=\""}

\* the units that follow the attribute value
TagsAttrClose ==
    {"\">\n  <span class=\"term-post-date\">",
     "\">\n  <div class=\"",
     "\">\n  <div style=\"...\">\n    <div class=\"word-blog-entry-title\">",
     "\">\n  <div style=\"...\">\n    <div class=\""}

\* the card element whose start tag begins at unit i of s
cardAt(s, i) ==
    LET k == FirstUnit(s, i + 1, TagsAttrOpen)
        e == FirstUnit(s, k + 1, TagsAttrClose)
    IN  [tagsAttr |-> unescape(SubSeq(s, k + 1, e - 1)), display |-> ""]

\* document.querySelectorAll('[data-post-tags]'), line 9
domCards(s) ==
    LET at == Ascending({i \in 1..Len(s) : s[i] = CARD_OPEN})
    IN  [k \in 1..Len(at) |-> cardAt(s, at[k])]

\* s.split(',')
RECURSIVE split(_)
split(s) ==
    LET c == FirstOf({j \in 1..Len(s) : s[j] = ","})
    IN  IF c = 0 THEN <<s>>
        ELSE <<SubSeq(s, 1, c - 1)>> \o split(SubSeq(s, c + 1, Len(s)))

\* the three classes line 19 removes
RemovedClasses ==
    {Class("word", "-tag-active"), Class("cosmic", "-tag-active"), Class("term", "-tag-active")}

\* the class lines 21-25 add to the clicked button
classToAdd(btn) ==
    IF Class("cosmic", "-tag") \in btn.classes THEN Class("cosmic", "-tag-active")
    ELSE IF Class("term", "-tag") \in btn.classes THEN Class("term", "-tag-active")
    ELSE Class("word", "-tag-active")

\* lines 18-25: the buttons after a click on button i
clickButtons(bs, i) ==
    [k \in 1..Len(bs) |->
        LET b == [bs[k] EXCEPT !.classes = @ \ RemovedClasses]
        IN  IF k = i THEN [b EXCEPT !.classes = @ \cup {classToAdd(b)}] ELSE b]

\* lines 28-35: the cards after a click on a button of tag selectedTag
clickCards(cs, selectedTag) ==
    [k \in 1..Len(cs) |->
        [cs[k] EXCEPT !.display =
            IF selectedTag = ALL \/ selectedTag \in Range(split(cs[k].tagsAttr))
            THEN "" ELSE "none"]]

\* a post with the given slug and tags
TaggedPost(slug, tags) ==
    [postOf(FileNamed(<<"a">>)) EXCEPT !.slug = slug, !.tags = tags]

TaggedSamples ==
    { TaggedPost(<<"a">>, << <<"x">>, <<"y">> >>),
      TaggedPost(<<"b">>, << <<"x">> >>),
      TaggedPost(<<"c">>, <<>>),
      TaggedPost(<<"d">>, << <<"x", ",", "y">> >>),
      TaggedPost(<<"e">>, << <<"\"">>, <<"y">> >>) }

\* the posts of a blog: distinct slugs
PostLists ==
    {ps \in SeqsUpTo(TaggedSamples, MaxPosts) :
        \A i, j \in 1..Len(ps) : i # j => ps[i].slug # ps[j].slug}

\* the theme the build passes to the fragment builders (line 595)
FilterThemes ==
    {"word-retro", "retro-cosmic", "gym-log", "love-column", "izakaya", "onsen-cosmos",
     "comedy-zine", "academy-log", "terminal", "kawase-blog", "sake-modern", "nope"}

PageOf(theme, ps) ==
    [theme |-> theme, posts |-> ps,
     postList  |-> buildPostListHtml(ps, <<"s">>, theme),
     tagFilter |-> buildTagFilterHtml(ps, theme)]

FilterIdle ==
    /\ page = PageOf("word-retro", <<>>) /\ tagBtns = <<>> /\ cards = <<>>
    /\ lastClicked = 0 /\ clicks = 0 /\ fpc = "idle"

InitFilterPage ==
    /\ page \in {PageOf(theme, ps) : theme \in FilterThemes, ps \in PostLists}
    /\ tagBtns = <<>> /\ cards = <<>>
    /\ lastClicked = 0 /\ clicks = 0 /\ fpc = "loading"

\* lines 7-11: the listener of DOMContentLoaded
DomContentLoaded ==
    /\ fpc = "loading"
    /\ tagBtns' = domButtons(page.tagFilter)
    /\ cards' = domCards(page.postList)
    /\ fpc' = "ready"
    /\ UNCHANGED <<page, lastClicked, clicks>>
    /\ UNCHANGED <<escVars, mdVars, renderVars, loadVars, buildVars>>

\* lines 14-36: the click listener of button i
Click(i) ==
    /\ fpc = "ready" /\ clicks < MaxClicks
    /\ tagBtns' = clickButtons(tagBtns, i)
    /\ cards' = clickCards(cards, tagBtns[i].tag)
    /\ lastClicked' = i
    /\ clicks' = clicks + 1
    /\ UNCHANGED <<page, fpc>>
    /\ UNCHANGED <<escVars, mdVars, renderVars, loadVars, buildVars>>

ClickButton == \E i \in 1..Len(tagBtns) : Click(i)

RenderIdle ==
    /\ templateStr = <<>> /\ vars = <<>> /\ keyNo = 0 /\ result = <<>> /\ rpc = "idle"

LoadIdle == postsDir = Dir(<<>>, FALSE, <<>>) /\ loaded = NotLoaded

BuildIdle ==
    /\ pc = "idle" /\ dist = NoDir /\ blogNo = 0 /\ postNo = 0
    /\ env = [matter |-> TRUE, old |-> NoDir, public |-> NoDir, blogsJson |-> TRUE,
              blogs |-> <<>>, content |-> ContentSamples, templates |-> TemplatePaths,
              now |-> [y |-> 2024, m |-> 3, d |-> 7, hour |-> 12, tz |-> 9]]
    /\ posts = <<>> /\ allPostsForTop = <<>> /\ exitCode = <<>> /\ stderr = <<>>

-----------------------------------------------------------------------------
(* Specifications: one per function of the program, and the build run *)

InitEsc == InitEscCall /\ MdIdle /\ RenderIdle /\ LoadIdle /\ BuildIdle /\ FilterIdle
NextEsc == CallEsc
SpecEsc == InitEsc /\ [][NextEsc]_allVars

InitMd == EscIdle /\ InitMdCall /\ RenderIdle /\ LoadIdle /\ BuildIdle /\ FilterIdle
NextMd == MdReturnEmpty \/ MdEnterLoop \/ MdLine \/ MdReturn
SpecMd == InitMd /\ [][NextMd]_allVars

InitRender == EscIdle /\ MdIdle /\ InitRenderCall /\ LoadIdle /\ BuildIdle /\ FilterIdle
NextRender == RenderKey \/ RenderReturn
SpecRender == InitRender /\ [][NextRender]_allVars

InitLoad == EscIdle /\ MdIdle /\ RenderIdle /\ InitLoadCall /\ BuildIdle /\ FilterIdle
NextLoad == CallLoadPosts
SpecLoad == InitLoad /\ [][NextLoad]_allVars

InitBuild == InitBuildRun /\ EscIdle /\ MdIdle /\ RenderIdle /\ LoadIdle /\ FilterIdle

NextBuild ==
    \/ LoadGrayMatter \/ GrayMatterMissing \/ RecreateDist \/ CopyAssets
    \/ ReadBlogsJson \/ BlogsJsonMissing \/ LoadBlogPosts \/ FrontmatterInvalid
    \/ WriteBlogList \/ WritePostPage \/ WriteHome \/ WriteNotFound
    \/ TemplateMissing \/ WriteNoJekyll

SpecBuild == InitBuild /\ [][NextBuild]_allVars

InitFilter == EscIdle /\ MdIdle /\ RenderIdle /\ LoadIdle /\ BuildIdle /\ InitFilterPage

NextFilter == DomContentLoaded \/ ClickButton

SpecFilter == InitFilter /\ [][NextFilter]_allVars

-----------------------------------------------------------------------------
(* Claims *)

\* occurrences of a tag in the output: the renderer's own tag unit, and the
\* same characters coming from text
CountTag(h, tagUnit, chars) == Occurrences(h, <<tagUnit>>) + Occurrences(h, chars)

OlOpens   == CountTag(html, TAG_OL_OPEN,  <<"<", "o", "l", ">">>)
OlCloses  == CountTag(html, TAG_OL_CLOSE, <<"<", "/", "o", "l", ">">>)
UlOpens   == CountTag(html, TAG_UL_OPEN,  <<"<", "u", "l", ">">>)
UlCloses  == CountTag(html, TAG_UL_CLOSE, <<"<", "/", "u", "l", ">">>)

\* C1: the output of renderMarkdown holds as many <ol> as </ol> and as many
\* <ul> as </ul>, for every body, also one that ends inside a list.
C1_ListBalance ==
    mdpc = "returned" => OlOpens = OlCloses /\ UlOpens = UlCloses

\* a body whose last line is a list item, rendered, with the list closed
C1_Witness ==
    /\ mdpc = "returned"
    /\ LineKind(lines[Len(lines)]) = "dash"
    /\ UlOpens >= 1 /\ UlOpens = UlCloses

\* C2: for a string s, esc(s) holds no literal <, > or ", every & of it starts
\* one of the four entities, and reading the entities back gives s (no input
\* character is escaped twice or left bare).
C2_EscSafe ==
    (escaped.called /\ str.t = "string") =>
        /\ WellEscaped(escaped.out)
        /\ unescape(escaped.out) = str.s

\* the input "&lt;" has been escaped: its & became &amp;
C2_Witness ==
    /\ escaped.called
    /\ str = Str(<<"&", "l", "t", ";">>)
    /\ escaped.out = <<"&", "a", "m", "p", ";", "l", "t", ";">>

\* C3 as stated: only null and undefined give the empty string; every other
\* value, false and NaN included, gives the escaped form of its string
\* conversion.
C3_OnlyNullUndefinedEmpty ==
    escaped.called =>
        IF str \in {Null, Undefined}
        THEN escaped.out = <<>>
        ELSE WellEscaped(escaped.out) /\ unescape(escaped.out) = String(str)

\* C3 amended: esc gives the empty string for every falsy value except the
\* number 0 (null, undefined, false, NaN, the empty string); every other value,
\* the number 0 included, gives the escaped form of its string conversion.
C3_FalsyButZeroEmpty ==
    escaped.called =>
        IF str \in {Null, Undefined, NaN, Bool(FALSE), Str(<<>>)}
        THEN escaped.out = <<>>
        ELSE WellEscaped(escaped.out) /\ unescape(escaped.out) = String(str)

\* false went to the empty string, and 0 would not
C3_Witness ==
    /\ escaped.called /\ str = Bool(FALSE) /\ escaped.out = <<>>
    /\ esc(Num(0)) = <<"0">>


\* one pass over the template: at each position, a placeholder of a key of the
\* mapping is replaced by the string form of its value, taken literally
RECURSIVE SinglePass(_, _, _)
SinglePass(tpl, entries, i) ==
    IF i > Len(tpl) THEN <<>>
    ELSE LET hits == {k \in 1..Len(entries) : MatchAt(tpl, Placeholder(entries[k][1]), i)}
         IN  IF hits = {}
             THEN <<tpl[i]>> \o SinglePass(tpl, entries, i + 1)
             ELSE LET k == CHOOSE k \in hits : TRUE
                  IN  Replacement(entries[k][2])
                          \o SinglePass(tpl, entries, i + Len(Placeholder(entries[k][1])))

\* C4: render(template, vars) is the single simultaneous pass over the
\* original template: each {{K}} of a key K of vars replaced by the string
\* form of vars[K], every other token unchanged, substituted text not
\* substituted again, the order of the keys irrelevant.
C4_SinglePass ==
    rpc = "returned" => result = SinglePass(templateStr, vars, 1)


\* what the claims on loadPosts speak of: the content items of the directory
IsItem(f) == endsWith(f.name, MD_EXT)
IsDraft(f) == Truthy(f.fm.draft)
FalsyRequired(f) == {k \in {"title", "date", "author"} : ~Truthy(f.fm[k])}
Items == {i \in 1..Len(postsDir.files) : IsItem(postsDir.files[i])}
BadItems == {i \in Items : FalsyRequired(postsDir.files[i]) # {}}
PostSlugs == {loaded.posts[i].slug : i \in 1..Len(loaded.posts)}

\* the names of a set of required fields, in the order title, date, author,
\* joined with ", "
NamedInOrder(ks) ==
    join(SelectSeq(<< <<"title">>, <<"date">>, <<"author">> >>, LAMBDA n : n[1] \in ks),
         <<",", " ">>)

\* C6: when loadPosts meets an item with title, date or author falsy, the
\* process exits with code 1, the message names the blog, the file and exactly
\* the falsy fields among title, date, author in that order, joined by ", ";
\* the item is not skipped and no post list is returned.
C6_MissingFieldFatal ==
    (loaded.called /\ postsDir.exists /\ BadItems # {}) =>
        LET i == CHOOSE i \in BadItems : \A j \in BadItems : i <= j
            f == postsDir.files[i]
        IN  /\ loaded.status = "exited"
            /\ loaded.code = 1
            /\ loaded.posts = <<>>
            /\ loaded.stderr =
                  <<"Frontmatter: ">> \o postsDir.slug \o <<"/posts/">> \o f.name
                      \o <<" (missing: ">> \o NamedInOrder(FalsyRequired(f)) \o <<")">>

\* an item with title and author missing stopped the run, both fields named
C6_Witness ==
    /\ loaded.called /\ loaded.status = "exited" /\ loaded.code = 1
    /\ \E i \in BadItems : FalsyRequired(postsDir.files[i]) = {"title", "author"}
    /\ Contains(loaded.stderr, <<"title", ",", " ", "author", ")">>)

\* C7: a draft item is silently left out: it is never among the returned
\* posts and never an error, whatever its title, date and author; the other
\* non-draft items are still loaded.
C7_DraftNeverAnError ==
    (loaded.called /\ postsDir.exists
        /\ \A i \in BadItems : IsDraft(postsDir.files[i])) =>
        /\ loaded.status = "returned"
        /\ PostSlugs = {slugOf(postsDir.files[i].name) :
                            i \in {j \in Items : ~IsDraft(postsDir.files[j])}}

\* C8: the returned sequence is a permutation of the Post records of the
\* valid non-draft items, each date (the first 10 characters of the item's
\* date) not less than the date of the post after it.
C8_SortedDescending ==
    (loaded.called /\ loaded.status = "returned") =>
        LET kept == {i \in Items : ~IsDraft(postsDir.files[i])}
        IN  /\ Len(loaded.posts) = Cardinality(kept)
            /\ \A i \in kept : \E k \in 1..Len(loaded.posts) :
                   /\ loaded.posts[k].slug = slugOf(postsDir.files[i].name)
                   /\ loaded.posts[k].title = postsDir.files[i].fm.title
                   /\ loaded.posts[k].author = postsDir.files[i].fm.author
                   /\ loaded.posts[k].date = SubSeq(postsDir.files[i].fm.date.s, 1, 10)
            /\ \A k \in 1..(Len(loaded.posts) - 1) :
                   ~StrLess(loaded.posts[k].date, loaded.posts[k + 1].date)

\* the listing gave 2024-01-01, 2024-03-01, 2024-02-01 and the call returned
\* 2024-03-01, 2024-02-01, 2024-01-01
C8_Witness ==
    /\ loaded.called /\ loaded.status = "returned"
    /\ Len(postsDir.files) = 3
    /\ [i \in 1..3 |-> postsDir.files[i].fm.date] = <<Str(D_0101), Str(D_0301), Str(D_0201)>>
    /\ [i \in 1..3 |-> loaded.posts[i].date] = <<D_0301, D_0201, D_0101>>


-----------------------------------------------------------------------------
(* Claims on the build run *)

Stale == {f \in dist.files : f.run = "earlier"}
Fresh == {f \in dist.files : f.run = "this"}
Written(path) == \E f \in Fresh : f.path = path
Ended == pc \in {"done", "exited"}

\* the keys whose value is a field of a post or of a blog
UserKeys ==
    {Key("POST_TITLE"), Key("POST_DATE"), Key("POST_AUTHOR"), Key("POST_EXCERPT"),
     Key("POST_SLUG"), Key("BLOG_TITLE"), Key("BLOG_DESC"), Key("BLOG_AUTHOR")}

\* the keys whose value is a fragment built from such fields
FragmentKeys ==
    {Key("POST_LIST"), Key("TAG_FILTER"), Key("PREV_POST"), Key("NEXT_POST"),
     Key("POST_TAGS"), Key("BLOG_TABLE_ROWS"), Key("LATEST_POSTS")}

\* an entity whose & was escaped again
DoubleEscaped(s) ==
    \E e \in {AMP, LT, GT, QUOT} : Contains(s, AMP \o Tail(e))

\* text as esc leaves it: no bare <, > or ", every & the start of an entity,
\* and no entity escaped a second time
EscapedOnce(s) == WellEscaped(s) /\ ~DoubleEscaped(s)

\* C5: in every page the run writes, the value interpolated for a user key
\* (POST_TITLE, POST_DATE, POST_AUTHOR, POST_EXCERPT, POST_SLUG, BLOG_TITLE,
\* BLOG_DESC, BLOG_AUTHOR) and every fragment (POST_LIST, TAG_FILTER,
\* PREV_POST, NEXT_POST, POST_TAGS, the table rows and the latest posts of the
\* home page) holds its user text escaped exactly once: never raw, never
\* escaped twice.
C5_UserTextEscapedOnce ==
    \A f \in Fresh : \A i \in 1..Len(f.vars) :
        f.vars[i][1] \in UserKeys \cup FragmentKeys =>
            EscapedOnce(Replacement(f.vars[i][2]))

\* the posts directory of the blog the run is at holds an item with a falsy
\* required field
BadItemAhead ==
    LET dir == env.content[env.blogs[blogNo].slug]
    IN  dir.exists /\ \E i \in 1..Len(dir.files) :
            IsItem(dir.files[i]) /\ FalsyRequired(dir.files[i]) # {}

\* the step the run is about to take meets a fatal condition
FatalAhead ==
    \/ pc = "loadGrayMatter" /\ ~env.matter
    \/ pc = "readBlogsJson" /\ ~env.blogsJson
    \/ pc = "loadPosts" /\ BadItemAhead
    \/ pc = "blogList" /\ blogListPath(themeOf(env.blogs[blogNo])) \notin env.templates
    \/ pc = "postPage" /\ postTemplatePath(themeOf(env.blogs[blogNo])) \notin env.templates
    \/ pc = "home" /\ HOME_TEMPLATE \notin env.templates
    \/ pc = "notFound" /\ NOT_FOUND_TEMPLATE \notin env.templates

\* where a run is: the phase, then the blog, the stage within the blog and the
\* post within the stage
Phase ==
    CASE pc = "loadGrayMatter" -> 0
      [] pc = "recreateDist"   -> 1
      [] pc = "copyAssets"     -> 2
      [] pc = "readBlogsJson"  -> 3
      [] pc \in {"loadPosts", "blogList", "postPage"} -> 4
      [] pc = "home"           -> 5
      [] pc = "notFound"       -> 6
      [] pc = "nojekyll"       -> 7
      [] OTHER                 -> 8

Stage == CASE pc = "loadPosts" -> 1 [] pc = "blogList" -> 2 [] pc = "postPage" -> 3 [] OTHER -> 0

Position == IF Phase = 4 THEN <<Phase, blogNo, Stage, postNo>> ELSE <<Phase, 0, 0, 0>>

LexLess(a, b) == \E i \in 1..4 : a[i] < b[i] /\ \A j \in 1..(i - 1) : a[j] = b[j]

\* how a run stands: running, at a statement of the script and with no exit code;
\* completed, with code 0 and the page of every blog, the home page, 404.html
\* and .nojekyll written; or aborted, with code 1 and a message
C9_Final ==
    /\ ~Ended => exitCode = <<>> /\ Phase < 8
    /\ pc = "done" =>
          /\ exitCode = <<0>>
          /\ Written(HOME_FILE) /\ Written(NOT_FOUND_FILE) /\ Written(NOJEKYLL_FILE)
          /\ \A i \in 1..Len(env.blogs) : Written(blogIndexFile(env.blogs[i]))
    /\ pc = "exited" => exitCode = <<1>> /\ stderr # <<>>

\* how a run moves: every step moves it forward; a step that meets a fatal
\* condition ends the run and leaves the output directory as it is, no other
\* step ends it abnormally, and an ended run does nothing more
C9_Step ==
    /\ LexLess(Position, Position')
    /\ FatalAhead => pc' = "exited" /\ dist' = dist
    /\ (~FatalAhead /\ ~Ended) => pc' # "exited"
    /\ Ended => UNCHANGED <<pc, dist, exitCode, stderr>>

\* C9: a build run either completes (every page, 404.html and .nojekyll
\* written, exit code 0) or aborts at the first fatal condition it meets (parser
\* not found, blogs.json missing, a required frontmatter field missing, a
\* template missing): it then exits with code 1, writes nothing more, and the
\* files written before stay in the output directory.  Every step moves the
\* run forward through its finitely many positions, so no run goes on for ever.
C9_CompleteOrAbort ==
    /\ []C9_Final
    /\ [][C9_Step]_allVars

\* a run that wrote the page of its first blog and then aborted on a missing
\* template: the page is still there, the home page is not
C9_Witness ==
    /\ pc = "exited" /\ exitCode = <<1>>
    /\ Len(env.blogs) = 2
    /\ Written(blogIndexFile(env.blogs[1]))
    /\ postTemplatePath(themeOf(env.blogs[2])) \notin env.templates
    /\ stderr[1] = "(build error) "
    /\ ~Written(HOME_FILE)

\* C10 as stated: the directory is deleted before the first file is written,
\* so files of an earlier run and of this run are never in it together, and a
\* run that has ended leaves no file of an earlier run in it.
C10_NoEarlierFileLeft ==
    /\ Fresh # {} => Stale = {}
    /\ Ended => Stale = {}

\* C10 amended: a run that finds the frontmatter parser deletes and recreates
\* the output directory before it checks blogs.json or any template and before
\* it writes or copies any file, so from that step on the directory exists and
\* holds only files of this run; files of an earlier run and of this run are
\* never in it together.  The parser is loaded before the deletion: a run that
\* does not find it exits with the output directory as the earlier run left it.
C10_CleanOnceParserLoaded ==
    /\ Fresh # {} => Stale = {}
    /\ (env.matter /\ pc \notin {"loadGrayMatter", "recreateDist"}) =>
          dist.exists /\ Stale = {}
    /\ (pc = "exited" /\ ~env.matter) => dist = env.old

\* an earlier run left files, this run deleted them, copied the assets and is
\* about to look for blogs.json
C10_Witness ==
    /\ env.old = OldDist /\ env.public.exists
    /\ pc = "readBlogsJson"
    /\ dist.exists /\ Stale = {} /\ Fresh # {}

-----------------------------------------------------------------------------
(* Claims on the tag filter *)

\* a button carries an active-state class: a class X-tag-active of any theme
IsActive(btn) == \E c \in btn.classes : c[2] = "-tag-active"

ActiveButtons == {k \in 1..Len(tagBtns) : IsActive(tagBtns[k])}

\* C11: after any sequence of clicks on a blog-list page of any theme, exactly
\* one button carries an active-state class, it is the button clicked last,
\* and the class it carries is the active-state class of the page's theme.
C11_OnlyLastClickedActive ==
    (fpc = "ready" /\ lastClicked # 0) =>
        /\ ActiveButtons = {lastClicked}
        /\ Class(themePrefix(page.theme), "-tag-active") \in tagBtns[lastClicked].classes

\* the tag of the button clicked last
selectedTag == tagBtns[lastClicked].tag

\* card k is shown
Visible(k) == cards[k].display = ""

\* the cards are shown exactly as the last clicked button alone asks
VisibleIffTagged ==
    \A k \in 1..Len(cards) :
        Visible(k) <=> (selectedTag = ALL \/ selectedTag \in Range(page.posts[k].tags))

\* the attribute of every card, split on commas, is the tag sequence of its post
SplitYieldsTags ==
    \A k \in 1..Len(cards) : split(cards[k].tagsAttr) = page.posts[k].tags

\* C12: after any sequence of clicks the visible cards are determined by the
\* button clicked last alone: the show-all button shows every card, a tag
\* button shows a card exactly when the tag sequence of the card's post
\* contains the button's tag, the card's attribute split on commas being
\* exactly that tag sequence.
C12_VisibleByLastClick ==
    (fpc = "ready" /\ lastClicked # 0) => (VisibleIffTagged /\ SplitYieldsTags)

\* the buttons of the tag filter of the page, in document order
FilterButtons == domButtons(page.tagFilter)

\* the tags of the posts of the page, post by post
FlatTags == Concat([i \in 1..Len(page.posts) |-> page.posts[i].tags])

\* where a tag is first seen among the tags of the posts
FirstSeen(t) == FirstOf({j \in 1..Len(FlatTags) : FlatTags[j] = t})

\* exactly one show-all button, and it comes first
ShowAllFirst ==
    /\ Cardinality({i \in 1..Len(page.tagFilter) : page.tagFilter[i] = BTN_ALL}) = 1
    /\ FilterButtons[1].tag = ALL

\* after the first button, one button per distinct tag, in first-seen order
OnePerTagInOrder ==
    LET ts == [k \in 1..(Len(FilterButtons) - 1) |-> FilterButtons[k + 1].tag]
    IN  /\ Range(ts) = Range(FlatTags)
        /\ \A i, j \in 1..Len(ts) : i < j => FirstSeen(ts[i]) < FirstSeen(ts[j])

\* the button carries the active-state class of the page's theme
MarkedByClass(b) == Class(themePrefix(page.theme), "-tag-active") \in b.classes

\* the button is highlighted by an inline style and carries no active-state class
MarkedByStyle(b) == b.style /\ ~IsActive(b)

\* no tag button is marked
TagButtonsUnmarked ==
    \A k \in 2..Len(FilterButtons) : ~IsActive(FilterButtons[k]) /\ ~FilterButtons[k].style

\* the themes whose show-all button is highlighted by an inline style
StyleMarkedThemes ==
    {"gym-log", "love-column", "izakaya", "onsen-cosmos", "comedy-zine", "academy-log"}

\* C13 as stated: buildTagFilterHtml returns '' when no post has a tag, and
\* otherwise exactly one show-all button marked with the active-state class
\* of the theme, followed by one button per distinct tag in first-seen order.
C13_ShowAllMarkedByClass ==
    IF FlatTags = <<>> THEN page.tagFilter = <<>>
    ELSE /\ ShowAllFirst /\ OnePerTagInOrder /\ TagButtonsUnmarked
         /\ MarkedByClass(FilterButtons[1])

\* C13: buildTagFilterHtml returns '' when no post has a tag, and otherwise
\* exactly one show-all button followed by one button per distinct tag in
\* first-seen order; the show-all button is marked with the active-state
\* class of the theme, except in the six themes that highlight it with an
\* inline style and give it no active-state class.
C13_ShowAllMarked ==
    IF FlatTags = <<>> THEN page.tagFilter = <<>>
    ELSE /\ ShowAllFirst /\ OnePerTagInOrder /\ TagButtonsUnmarked
         /\ IF page.theme \in StyleMarkedThemes
            THEN MarkedByStyle(FilterButtons[1])
            ELSE MarkedByClass(FilterButtons[1])

\* a gym-log page of two posts sharing a tag has been loaded: three buttons,
\* the first highlighted by its inline style
C13_Witness ==
    /\ fpc = "ready" /\ page.theme = "gym-log"
    /\ FlatTags = << <<"x">>, <<"y">>, <<"x">> >>
    /\ Len(tagBtns) = 3 /\ tagBtns[1].style

-----------------------------------------------------------------------------
(* Claims on the theme of a blog *)

\* the themes the fragment builders know
KnownThemes ==
    {"word-retro", "retro-cosmic", "gym-log", "love-column", "izakaya", "onsen-cosmos",
     "comedy-zine", "academy-log", "terminal", "kawase-blog", "sake-modern"}

\* the theme a blog is to be built with: its own when known, else word-retro
EffectiveTheme(blog) == IF blog.theme \in KnownThemes THEN blog.theme ELSE "word-retro"

\* the blog the run is working on
CurrentBlog == env.blogs[blogNo]

\* the fragments of the pages of the current blog are those of its effective theme
FragmentsFallBack ==
    LET blog == CurrentBlog
        t == EffectiveTheme(blog)
    IN  /\ pc = "blogList" =>
              /\ buildPostListHtml(posts, blog.slug, themeOf(blog)) = buildPostListHtml(posts, blog.slug, t)
              /\ buildTagFilterHtml(posts, themeOf(blog)) = buildTagFilterHtml(posts, t)
        /\ pc = "postPage" =>
              /\ buildTagsHtml(posts[postNo].tags, themeOf(blog)) = buildTagsHtml(posts[postNo].tags, t)
              /\ buildNavCard(Some(posts[postNo]), <<"(prev)">>, blog.slug, themeOf(blog))
                    = buildNavCard(Some(posts[postNo]), <<"(prev)">>, blog.slug, t)

\* the template read for a page of the current blog is that of its effective theme
TemplateFallsBack ==
    /\ pc = "blogList" => templateNeeded = blogListPath(EffectiveTheme(CurrentBlog))
    /\ pc = "postPage" => templateNeeded = postTemplatePath(EffectiveTheme(CurrentBlog))

\* the run ended for want of a template
TemplateNotFound ==
    pc = "exited" /\ Len(stderr) > 2 /\ stderr[2] = "(template not found) "

\* the run never ends for want of a template of a theme that is not known
NoFailureByTheme ==
    TemplateNotFound =>
        SubSeq(stderr, 3, Len(stderr)) \in
            {HOME_TEMPLATE, NOT_FOUND_TEMPLATE}
                \cup {blogListPath(t) : t \in KnownThemes}
                \cup {postTemplatePath(t) : t \in KnownThemes}

\* C14: for a blog whose theme is absent or not one of the known themes,
\* every theme-dependent step (the post-list cards, the tag filter, the
\* navigation cards, the tag badges and the choice of the blog-list and post
\* templates) is that of word-retro, and the run does not fail because of
\* the theme.
C14_ThemeFallsBack ==
    FragmentsFallBack /\ TemplateFallsBack /\ NoFailureByTheme

-----------------------------------------------------------------------------
(* Claims on the 'recently updated' flag *)

\* the day of a date string, in days since the epoch
DayOf(date) == dateHours(SubSeq(date, 1, 10)) \div 24

\* the build date: the local date of the run
BuildDay == daysFromCivil(env.now.y, env.now.m, env.now.d)

\* the day of the latest post of a blog that has posts
LatestDay(slug) ==
    LET ps == postsOfBlog(allPostsForTop, slug)
        days == {DayOf(ps[i].date) : i \in 1..Len(ps)}
    IN  CHOOSE d \in days : \A e \in days : e <= d

HasPosts(slug) == Len(postsOfBlog(allPostsForTop, slug)) > 0

\* the home page of this run
HomePage == CHOOSE f \in Fresh : f.path = HOME_FILE

\* the row of the blog on the home page carries the NEW badge
Flagged(blog) ==
    LET row == blogTableRow(blog, allPostsForTop, env.now)
    IN  Contains(HomePage.content, row) /\ NEW_BADGE \in Range(row)

\* C15: on the home page a blog is not flagged as recently updated when it
\* has no posts or when its latest post is dated exactly 8 days before the
\* build date, and it is flagged when its latest post is dated exactly 6 days
\* before the build date, at whatever time of day the run takes place.
C15_RecentByDays ==
    Written(HOME_FILE) =>
        \A i \in 1..Len(env.blogs) :
            LET blog == env.blogs[i]
            IN  /\ ~HasPosts(blog.slug) => ~Flagged(blog)
                /\ (HasPosts(blog.slug) /\ BuildDay - LatestDay(blog.slug) = 8) => ~Flagged(blog)
                /\ (HasPosts(blog.slug) /\ BuildDay - LatestDay(blog.slug) = 6) => Flagged(blog)

-----------------------------------------------------------------------------
(* Claims on the lists of renderMarkdown *)

\* the units that start a heading, a blank line or a paragraph
BlockStart == {"<h1>", "<h2>", "<h3>", "<p>", "\n"}

\* the unit that starts a list item
ITEM_START == "  <li>"

\* the list open after the first i units of h: "none", "ol" or "ul"; "bad"
\* once a list was opened inside a list, a closing tag did not match the open
\* list, an item stood outside a list or a block stood inside one
RECURSIVE ListAfter(_, _)
ListAfter(h, i) ==
    IF i = 0 THEN "none"
    ELSE LET s == ListAfter(h, i - 1)
             u == h[i]
         IN  CASE s = "bad" -> "bad"
               [] u = TAG_OL_OPEN  -> IF s = "none" THEN "ol" ELSE "bad"
               [] u = TAG_UL_OPEN  -> IF s = "none" THEN "ul" ELSE "bad"
               [] u = TAG_OL_CLOSE -> IF s = "ol" THEN "none" ELSE "bad"
               [] u = TAG_UL_CLOSE -> IF s = "ul" THEN "none" ELSE "bad"
               [] u = ITEM_START   -> IF s = "none" THEN "bad" ELSE s
               [] u \in BlockStart -> IF s = "none" THEN "none" ELSE "bad"
               [] OTHER -> s

\* the list the flags say is open
OpenList == IF inOl THEN "ol" ELSE IF inUl THEN "ul" ELSE "none"

\* at most one list is open, and the output so far is nested as the flags say
OneListOpen ==
    /\ ~(inOl /\ inUl)
    /\ ListAfter(html, Len(html)) = OpenList

\* a line was processed: its element is appended, in a list of its own kind
\* when it is an item and outside every list otherwise
ElementWhereItBelongs ==
    lineNo' = lineNo + 1 =>
        LET k == LineKind(lines[lineNo'])
            j == FirstUnit(html', Len(html) + 1, BlockStart \cup {ITEM_START})
        IN  /\ SubSeq(html', 1, Len(html)) = html
            /\ j > 0
            /\ ListAfter(html', j) = CASE k = "numbered" -> "ol"
                                       [] k = "dash" -> "ul"
                                       [] OTHER -> "none"

\* C16: while renderMarkdown processes the lines at most one list is open;
\* every list item is emitted while a list of its own kind is open, a switch
\* from one kind of list to the other emits the closing tag of the open list
\* before the opening tag of the new one, and every heading, blank line and
\* paragraph is emitted with no list open.
C16_ListDiscipline == []OneListOpen /\ [][ElementWhereItBelongs]_allVars

\* a numbered line followed an item of an unordered list: the unordered list
\* was closed, then the ordered list opened, and it is open now
C16_Witness ==
    /\ mdpc = "loop" /\ inOl /\ ~inUl
    /\ Contains(html, <<TAG_UL_CLOSE, TAG_OL_OPEN>>)

=========================================================================
